---- MODULE Spec2Model ----
(***************************************************************************)
(* A model of the servers of MCP-POC, the two log-search servers           *)
(*   src/kibana/elastic.py  the "Elastic Server" (search_elasticsearch_logs,*)
(*                          search_kibana_logs, fetch_elasticsearch_logs)  *)
(*   src/kibana/kibana.py   the "Kibana Server" (_encode_rison,            *)
(*                          _format_search_response, search_kibana_logs,   *)
(*                          fetch_kibana_status, fetch_kibana_logs,        *)
(*                          _build_discover_url,                           *)
(*                          generate_kibana_discover_url)                  *)
(* and the issue-tracker server                                            *)
(*   src/redmine/redmine.py the "Redmine Server" (get_issues, get_projects,*)
(*                          download_issue_attachments, download_file,     *)
(*                          make_redmine_request).                         *)
(* Python strings that the code only copies are TLA+ strings; strings the  *)
(* code inspects character by character are sequences of one-character     *)
(* strings.  A Python value that may be None, or that may have one of      *)
(* several shapes, is a record with a tag.  In the texts of the link        *)
(* tools every character the code looks for is an element of its own, and  *)
(* an element of several characters stands for a run of letters, digits,   *)
(* "." and "_", which no operation of the code tells apart.                *)
(***************************************************************************)
EXTENDS Integers, Sequences, FiniteSets, TLC

VARIABLES
    env,        \* the module-level constants read from the environment
    up,         \* the backends that answer a search with HTTP 200 and JSON
    pc,         \* "idle", "waiting" (a request is in flight) or "done"
    call,       \* the invocation in progress: its entry point and arguments
    clients,    \* the number of Elasticsearch clients created by the invocation
    requests,   \* the backend requests issued by the invocation, in order
    response,   \* what the backend answered to the request in flight
    result,     \* what the invocation gave its caller
    risonIn,    \* the string or value handed to _encode_rison
    risonOut,   \* what _encode_rison returned for it
    kibanaArgs, \* the arguments of the status or link tool in progress
    discover,   \* the Discover link the link tool built
    tasks,      \* the search coroutines running on one event loop
    redminePc,      \* "idle", "waiting", "paging", "downloading" or "done"
    redmineCall,    \* the Redmine tool in progress and its arguments
    total_count,    \* the total the Redmine server reports, if it reports one
    endpoints,      \* the endpoints handed to make_redmine_request, in order
    pages,          \* the project pages the Redmine server returned, in order
    all_projects,   \* get_projects: the projects collected so far
    offset,         \* get_projects: the offset of the next page
    attachments,    \* download_issue_attachments: the attachments of the issue
    position,       \* download_issue_attachments: the attachment handled next
    results,        \* download_issue_attachments: one message per attachment
    success_count,  \* download_issue_attachments: the downloads that succeeded
    downloads,      \* the calls of download_file, in order
    files,          \* the files on disk below the output directory
    redmineResult   \* what the Redmine tool returned

vars ==
    <<env, up, pc, call, clients, requests, response, result, risonIn, risonOut,
      kibanaArgs, discover, tasks,
      redminePc, redmineCall, total_count, endpoints, pages, all_projects, offset,
      attachments, position, results, success_count, downloads, files,
      redmineResult>>

searchVars == <<env, up, pc, call, clients, requests, response, result>>
risonVars == <<risonIn, risonOut>>
linkVars == <<kibanaArgs, discover>>
taskVars == <<tasks>>
redmineVars ==
    <<redminePc, redmineCall, total_count, endpoints, pages, all_projects, offset,
      attachments, position, results, success_count, downloads, files,
      redmineResult>>

----------------------------------------------------------------------------
(* Bounds of the model *)

\* the longest hit list a backend response carries
MaxHits == 2
\* the largest total-match count a backend response reports
MaxTotal == 2
\* the longest string over RisonAlphabet handed to _encode_rison
MaxStrLen == 2
\* the longest list handed to _encode_rison
MaxItems == 2
\* the largest number of keys of a dict handed to _encode_rison
MaxKeys == 2
\* the search coroutines running at the same time
MaxTasks == 2
\* the largest total_count the Redmine server reports
MaxTotalCount == 201
\* the attachments of an issue
MaxAttachments == 2

\* The largest result window the backend accepts (spec.md section 3: "a
\* configured maximum (e.g., 10000)").  The code defines no such constant.
ConfiguredMaximum == 10000

----------------------------------------------------------------------------
(* Character strings *)

\* "log.level" and "k8s-deployment", the examples of the state encoder
LogLevel == <<"l", "o", "g", ".", "l", "e", "v", "e", "l">>
K8sDeployment == <<"k", "8", "s", "-", "d", "e", "p", "l", "o", "y", "m", "e", "n", "t">>

RECURSIVE SeqsUpTo(_, _)
\* all sequences over S of length at most n
SeqsUpTo(S, n) ==
    IF n = 0 THEN {<<>>}
    ELSE LET shorter == SeqsUpTo(S, n - 1)
         IN  shorter \cup {Append(s, x) : s \in shorter, x \in S}

----------------------------------------------------------------------------
(* The state encoder, strings only: src/kibana/kibana.py, _encode_rison *)

\* the reserved characters without the hyphen
special_chars_without_hyphen == {"'", ":", "!", ",", "(", ")", "@", " "}

\* set("':!,()@- ")
special_chars == {"'", ":", "!", ",", "(", ")", "@", "-", " "}

RECURSIVE str_replace_quote(_)
\* obj.replace("'", "!'")
str_replace_quote(obj) ==
    IF obj = <<>> THEN <<>>
    ELSE (IF Head(obj) = "'" THEN <<"!", "'">> ELSE <<Head(obj)>>)
         \o str_replace_quote(Tail(obj))

\* the isinstance(obj, str) branch of _encode_rison
_encode_rison_str(obj) ==
    IF (\E i \in 1..Len(obj) : obj[i] \in special_chars) \/ obj = <<>>
    THEN LET escaped == str_replace_quote(obj)
         IN  <<"'">> \o escaped \o <<"'">>
    ELSE obj

----------------------------------------------------------------------------
(* The state encoder on nested values: src/kibana/kibana.py, _encode_rison *)

\* a value handed to _encode_rison: None, True, False, an int, a str, a list
\* (its elements in `items`) or a dict (its keys in insertion order in
\* `keys`, their values in `items`)
RisonValue(tag, n, s, keys, items) ==
    [tag |-> tag, n |-> n, s |-> s, keys |-> keys, items |-> items]
RisonNull == RisonValue("null", 0, <<>>, <<>>, <<>>)
RisonBool(b) == RisonValue(IF b THEN "true" ELSE "false", 0, <<>>, <<>>, <<>>)
RisonInt(n) == RisonValue("int", n, <<>>, <<>>, <<>>)
RisonStr(s) == RisonValue("str", 0, s, <<>>, <<>>)
RisonList(items) == RisonValue("list", 0, <<>>, <<>>, items)
RisonDict(keys, items) == RisonValue("dict", 0, <<>>, keys, items)

RECURSIVE str_of_int(_)
\* str(obj) of an int
str_of_int(n) ==
    LET digits == <<"0", "1", "2", "3", "4", "5", "6", "7", "8", "9">>
    IN  IF n < 0 THEN <<"-">> \o str_of_int(0 - n)
        ELSE IF n < 10 THEN <<digits[n + 1]>>
        ELSE str_of_int(n \div 10) \o <<digits[(n % 10) + 1]>>

RECURSIVE str_join(_, _)
\* sep.join(l)
str_join(sep, l) ==
    IF l = <<>> THEN <<>>
    ELSE IF Len(l) = 1 THEN l[1]
    ELSE l[1] \o sep \o str_join(sep, Tail(l))

\* a pair of a dict with the key encoded as a string value is
_encode_rison_pair_encoded(key, value) == _encode_rison_str(key) \o <<":">> \o value

\* f"{key}:{_encode_rison(value)}", `value` being the encoded value
_encode_rison_pair(key, value) == key \o <<":">> \o value

RECURSIVE _encode_rison(_)
\* _encode_rison(obj); True and False are told from 1 and 0 by `is`.  No
\* float and no value of another type is handed to it here.
_encode_rison(obj) ==
    CASE obj.tag = "null" -> <<"!", "n">>
      [] obj.tag = "true" -> <<"!", "t">>
      [] obj.tag = "false" -> <<"!", "f">>
      [] obj.tag = "int" -> str_of_int(obj.n)
      [] obj.tag = "str" -> _encode_rison_str(obj.s)
      [] obj.tag = "list" ->
            IF obj.items = <<>> THEN <<"!", "(", ")">>
            ELSE LET items ==
                         str_join(<<",">>, [i \in 1..Len(obj.items) |->
                                               _encode_rison(obj.items[i])])
                 IN  <<"!", "(">> \o items \o <<")">>
      [] obj.tag = "dict" ->
            IF obj.keys = <<>> THEN <<"(", ")">>
            ELSE LET pairs ==
                         str_join(<<",">>, [i \in 1..Len(obj.keys) |->
                                               _encode_rison_pair(obj.keys[i],
                                                   _encode_rison(obj.items[i]))])
                 IN  <<"(">> \o pairs \o <<")">>

----------------------------------------------------------------------------
(* Python values *)

\* an exception, with str(e) as the sequence of the parts of its text
Exc(type, text) == [type |-> type, text |-> text]
NoExc == Exc("", <<>>)

\* Optional[list[str]]: None, or a list of field names
None == [none |-> TRUE, list |-> <<>>]
List(l) == [none |-> FALSE, list |-> l]
\* the truth value Python gives an Optional[list]
Truthy(fields) == ~fields.none /\ fields.list # <<>>

----------------------------------------------------------------------------
(* Backend responses *)

Backends == {"elasticsearch", "kibana"}

\* hits.total of a search response: absent, a bare integer, or an object
\* with (or without) a "value" field: n is the bare integer, value the field
Total(tag, n, value) == [tag |-> tag, n |-> n, value |-> value]
Totals ==
    {Total("absent", 0, 0), Total("obj_novalue", 0, 0)}
    \cup {Total("int", n, 0) : n \in 0..MaxTotal}
    \cup {Total("obj", 0, n) : n \in 0..MaxTotal}

\* one entry of hits.hits; "_score" may be missing
Hit(id, has_score, score) ==
    [_index |-> "logs-1", _id |-> id, has_score |-> has_score, _score |-> score,
     _source |-> id]
Hits == {Hit("a", FALSE, 0), Hit("b", TRUE, 0)}

\* the JSON body of an HTTP 200 answer
Payload(has_hits, total, has_list, hits, has_took, took) ==
    [has_hits |-> has_hits, total |-> total, has_list |-> has_list, hits |-> hits,
     has_took |-> has_took, took |-> took]
NoPayload == Payload(FALSE, Total("absent", 0, 0), FALSE, <<>>, FALSE, 0)
Payloads ==
    {Payload(FALSE, Total("absent", 0, 0), FALSE, <<>>, TRUE, 5)}
    \cup {Payload(TRUE, t, TRUE, l, TRUE, 5) : t \in Totals, l \in SeqsUpTo(Hits, MaxHits)}
    \cup {Payload(TRUE, t, FALSE, <<>>, TRUE, 5) : t \in Totals}
    \cup {Payload(TRUE, Total("int", 0, 0), TRUE, <<>>, FALSE, 0)}

\* the hit-list structure the normalizer expects (spec.md section 4.2)
HasHitList(data) ==
    data.has_hits /\ data.has_list /\ data.total.tag \in {"int", "obj"}
\* a payload every search variant is specified to accept
ValidPayload(data) == HasHitList(data) /\ data.has_took

\* what a backend answers: a transport failure (connection refused, timeout),
\* an HTTP error status, or HTTP 200 with a JSON body
Response(kind, status, text, data) ==
    [kind |-> kind, status |-> status, text |-> text, data |-> data]
NoResponse == Response("none", "", "", NoPayload)
Failures ==
    {Response("transport", "", "All connection attempts failed", NoPayload),
     Response("http_error", "500", "Internal Server Error", NoPayload)}
Responses == Failures \cup {Response("ok", "200", "", d) : d \in Payloads}

\* a backend in `up` answers with a valid payload, any other backend does not
ResponsesOf(backend) ==
    IF backend \in up
    THEN {r \in Responses : r.kind = "ok" /\ ValidPayload(r.data)}
    ELSE {r \in Responses : ~(r.kind = "ok" /\ ValidPayload(r.data))}

----------------------------------------------------------------------------
(* str methods the tools use on their comma-separated arguments *)

RECURSIVE str_split(_)
\* s.split(",")
str_split(s) ==
    IF \A i \in 1..Len(s) : s[i] # "," THEN <<s>>
    ELSE LET i == CHOOSE j \in 1..Len(s) : s[j] = "," /\ \A k \in 1..(j - 1) : s[k] # ","
         IN  <<SubSeq(s, 1, i - 1)>> \o str_split(SubSeq(s, i + 1, Len(s)))

RECURSIVE str_strip(_)
\* s.strip()
str_strip(s) ==
    IF s = <<>> THEN s
    ELSE IF Head(s) = " " THEN str_strip(Tail(s))
    ELSE IF s[Len(s)] = " " THEN str_strip(SubSeq(s, 1, Len(s) - 1))
    ELSE s

RECURSIVE strip_each(_)
\* [f.strip() for f in l]
strip_each(l) ==
    IF l = <<>> THEN <<>>
    ELSE <<str_strip(Head(l))>> \o strip_each(Tail(l))

RECURSIVE strip_each_if_nonempty(_)
\* [f.strip() for f in l if f.strip()]
strip_each_if_nonempty(l) ==
    IF l = <<>> THEN <<>>
    ELSE (IF str_strip(Head(l)) # <<>> THEN <<str_strip(Head(l))>> ELSE <<>>)
         \o strip_each_if_nonempty(Tail(l))

----------------------------------------------------------------------------
(* Texts of the link tools, and the str and urllib functions used on them *)

\* a configured string as a text: the code looks for none of its characters
Text(str) == IF str = "" THEN <<>> ELSE <<str>>

\* DATA_VIEW_ID as the link tools hand it to the encoder
DATA_VIEW_ID_text ==
    <<"86091596", "-", "a33a", "-", "4b4b", "-", "b825", "-", "d387bb6e3c5e">>

RECURSIVE str_rstrip_slash(_)
\* s.rstrip("/")
str_rstrip_slash(s) ==
    IF s # <<>> /\ s[Len(s)] = "/" THEN str_rstrip_slash(SubSeq(s, 1, Len(s) - 1))
    ELSE s

\* s.replace("host.containers.internal", "localhost")
str_replace_container_host(s) ==
    [i \in 1..Len(s) |-> IF s[i] = "host.containers.internal" THEN "localhost" ELSE s[i]]

\* quote(c) of one element: letters, digits and "_.-~/" are kept, any other
\* character becomes "%" and its code
quote_char(c) ==
    CASE c = "'" -> <<"%", "27">>
      [] c = ":" -> <<"%", "3A">>
      [] c = "!" -> <<"%", "21">>
      [] c = "," -> <<"%", "2C">>
      [] c = "(" -> <<"%", "28">>
      [] c = ")" -> <<"%", "29">>
      [] c = "@" -> <<"%", "40">>
      [] c = " " -> <<"%", "20">>
      [] c = "*" -> <<"%", "2A">>
      [] c = "%" -> <<"%", "25">>
      [] OTHER -> <<c>>

RECURSIVE quote(_)
\* urllib.parse.quote(s)
quote(s) == IF s = <<>> THEN <<>> ELSE quote_char(Head(s)) \o quote(Tail(s))

----------------------------------------------------------------------------
(* Query documents *)

\* the range with its two bounds exchanged
Range_exchanged(gte, lte) ==
    [field |-> "@timestamp", gte |-> lte, lte |-> gte,
     format |-> "strict_date_optional_time"]

\* {"range": {"@timestamp": {"gte": .., "lte": .., "format": ..}}}
Range(gte, lte) ==
    [field |-> "@timestamp", gte |-> gte, lte |-> lte,
     format |-> "strict_date_optional_time"]
\* {"query_string": {"query": .., "analyze_wildcard": True}}
QueryString(query) ==
    [clause |-> "query_string", query |-> query, analyze_wildcard |-> TRUE]
\* {"match_all": {}}
MatchAll == [clause |-> "match_all", query |-> "", analyze_wildcard |-> FALSE]
\* {sort_field: {"order": sort_order}}
Sort(sort_field, sort_order) == [field |-> sort_field, order |-> sort_order]

\* a query body; has_source tells whether the "_source" key is set
QueryBody(must, filter, sort, size, has_source, source) ==
    [must |-> must, filter |-> filter, sort |-> sort, size |-> size,
     has_source |-> has_source, _source |-> source]

\* query_body of search_elasticsearch_logs
search_elasticsearch_logs_query_body(a) ==
    LET query_body ==
            QueryBody(<<>>, <<Range(a.time_from, a.time_to)>>,
                      <<Sort(a.sort_field, a.sort_order)>>, a.size, FALSE, <<>>)
        with_must ==
            IF a.query # ""
            THEN [query_body EXCEPT !.must = Append(@, QueryString(a.query))]
            ELSE [query_body EXCEPT !.must = Append(@, MatchAll)]
    IN  IF Truthy(a.fields)
        THEN [with_must EXCEPT !.has_source = TRUE, !._source = a.fields.list]
        ELSE with_must

\* query_body of search_kibana_logs (Elastic server)
elastic_search_kibana_logs_query_body(a) ==
    LET query_body ==
            QueryBody(<<>>, <<Range(a.time_from, a.time_to)>>,
                      <<Sort(a.sort_field, a.sort_order)>>, a.size, FALSE, <<>>)
        with_must ==
            IF a.query # ""
            THEN [query_body EXCEPT !.must = Append(@, QueryString(a.query))]
            ELSE [query_body EXCEPT !.must = Append(@, MatchAll)]
    IN  IF Truthy(a.fields)
        THEN [with_must EXCEPT !.has_source = TRUE, !._source = a.fields.list]
        ELSE with_must

\* es_query with match_all appended whether or not there is a query
kibana_search_kibana_logs_es_query_both(a, field_list) ==
    LET es_query ==
            QueryBody(<<>>, <<Range(a.time_from, a.time_to)>>,
                      <<Sort("@timestamp", "desc")>>, a.size, FALSE, <<>>)
        with_query ==
            IF a.query # ""
            THEN [es_query EXCEPT !.must = Append(@, QueryString(a.query))]
            ELSE es_query
        with_must == [with_query EXCEPT !.must = Append(@, MatchAll)]
    IN  IF Truthy(field_list)
        THEN [with_must EXCEPT !.has_source = TRUE, !._source = field_list.list]
        ELSE with_must

\* es_query of search_kibana_logs (Kibana server); field_list is the parsed
\* "fields" argument
kibana_search_kibana_logs_es_query(a, field_list) ==
    LET es_query ==
            QueryBody(<<>>, <<Range(a.time_from, a.time_to)>>,
                      <<Sort("@timestamp", "desc")>>, a.size, FALSE, <<>>)
        with_must ==
            IF a.query # ""
            THEN [es_query EXCEPT !.must = Append(@, QueryString(a.query))]
            ELSE [es_query EXCEPT !.must = Append(@, MatchAll)]
    IN  IF Truthy(field_list)
        THEN [with_must EXCEPT !.has_source = TRUE, !._source = field_list.list]
        ELSE with_must

----------------------------------------------------------------------------
(* Normalizing a response *)

\* hit.get("_score", 0): 0 when the hit has no score
Score_or_zero(hit) ==
    IF hit.has_score THEN [null |-> FALSE, v |-> hit._score] ELSE [null |-> FALSE, v |-> 0]

\* hit.get("_score"): None when the hit has no score
Score(hit) ==
    IF hit.has_score THEN [null |-> FALSE, v |-> hit._score] ELSE [null |-> TRUE, v |-> 0]

\* {"_index": hit["_index"], "_id": hit["_id"], "_score": hit.get("_score"),
\*  "_source": hit["_source"]}
FormatHit(hit) ==
    [_index |-> hit._index, _id |-> hit._id, _score |-> Score(hit), _source |-> hit._source]

\* [FormatHit(hit) for hit in hits]
FormatHits(hits) == [i \in 1..Len(hits) |-> FormatHit(hits[i])]

\* the dict a search returns
Value(total, took, hits) == [total |-> total, took |-> took, hits |-> hits]
NoValue == Value(0, 0, <<>>)

\* a function's outcome: the exception it raised, or (with NoExc) its value
Outcome(exc, value) == [exc |-> exc, value |-> value]
Raise(type, text) == Outcome(Exc(type, text), NoValue)
Return(value) == Outcome(NoExc, value)

\* search_elasticsearch_logs, "Format response": response["hits"]["total"]["value"]
search_elasticsearch_logs_format(data) ==
    IF ~data.has_hits THEN Raise("KeyError", <<"'hits'">>)
    ELSE IF data.total.tag = "absent" THEN Raise("KeyError", <<"'total'">>)
    ELSE IF data.total.tag = "int"
    THEN Raise("TypeError", <<"'int' object is not subscriptable">>)
    ELSE IF data.total.tag = "obj_novalue" THEN Raise("KeyError", <<"'value'">>)
    ELSE IF ~data.has_took THEN Raise("KeyError", <<"'took'">>)
    ELSE IF ~data.has_list THEN Raise("KeyError", <<"'hits'">>)
    ELSE Return(Value(data.total.value, data.took, FormatHits(data.hits)))

\* search_kibana_logs (Elastic server), "Format response"
elastic_search_kibana_logs_format(data) ==
    IF ~data.has_hits THEN Raise("KeyError", <<"'hits'">>)
    ELSE IF data.total.tag = "absent" THEN Raise("KeyError", <<"'total'">>)
    ELSE IF data.total.tag = "obj_novalue" THEN Raise("KeyError", <<"'value'">>)
    ELSE IF ~data.has_took THEN Raise("KeyError", <<"'took'">>)
    ELSE IF ~data.has_list THEN Raise("KeyError", <<"'hits'">>)
    ELSE LET total ==
                 IF data.total.tag = "obj" THEN data.total.value ELSE data.total.n
         IN  Return(Value(total, data.took, FormatHits(data.hits)))

\* _format_search_response (Kibana server)
_format_search_response(data) ==
    IF ~data.has_hits THEN Raise("KeyError", <<"'hits'">>)
    ELSE IF data.total.tag = "absent" THEN Raise("KeyError", <<"'total'">>)
    ELSE IF data.total.tag = "obj_novalue" THEN Raise("KeyError", <<"'value'">>)
    ELSE IF ~data.has_list THEN Raise("KeyError", <<"'hits'">>)
    ELSE LET total_hits == data.total
             total_value == IF total_hits.tag = "obj" THEN total_hits.value ELSE total_hits.n
             took == IF data.has_took THEN data.took ELSE 0
         IN  Return(Value(total_value, took, FormatHits(data.hits)))

----------------------------------------------------------------------------
(* Configuration, arguments, requests and results *)

\* the module constants of one server process; a variable that is not set
\* is the empty string
Env(server, kibana_url, kibana_api_key, elastic_url, elastic_api_key, username, password) ==
    [server |-> server, KIBANA_URL |-> kibana_url, KIBANA_API_KEY |-> kibana_api_key,
     ELASTIC_URL |-> elastic_url, ELASTIC_API_KEY |-> elastic_api_key,
     KIBANA_USERNAME |-> username, KIBANA_PASSWORD |-> password]

\* the Elastic server reads ELASTIC_URL, ELASTIC_API_KEY, KIBANA_URL,
\* KIBANA_USERNAME and KIBANA_PASSWORD
ElasticEnvs ==
    {Env("elastic", k, "", e, key, basic[1], basic[2]) :
        k \in {"", "https://localhost/kibana"},
        e \in {"", "http://localhost:9200"},
        key \in {"", "VnVhQ2ZHY0JDZGJrU"},
        basic \in {<<"", "">>, <<"elastic", "">>, <<"elastic", "changeme">>}}

\* the Kibana server reads KIBANA_URL and KIBANA_API_KEY
KibanaEnvs ==
    {Env("kibana", k, key, "", "", "", "") :
        k \in {"", "https://localhost/kibana"},
        key \in {"", "VnVhQ2ZHY0JDZGJrU"}}

\* DATA_VIEW_ID of the Kibana server
DATA_VIEW_ID == "86091596-a33a-4b4b-b825-d387bb6e3c5e"

\* the arguments of a search; `fields` is the list a function takes,
\* `fields_str` the comma-separated string a tool takes
Args(index_pattern, time_from, time_to, query, fields, fields_str, sort_field, sort_order, size) ==
    [index_pattern |-> index_pattern, time_from |-> time_from, time_to |-> time_to,
     query |-> query, fields |-> fields, fields_str |-> fields_str,
     sort_field |-> sort_field, sort_order |-> sort_order, size |-> size]
NoArgs == Args("", "", "", "", None, <<>>, "", "", 0)

Queries == {"", "log.level:ERROR"}
SortOrders == {"asc", "desc", "descending"}
Sizes == {1, ConfiguredMaximum, ConfiguredMaximum + 1}
FieldLists == {None, List(<<<<"m">>>>)}
\* "", "m, l" and ", "
FieldStrings == {<<>>, <<"m", ",", " ", "l">>, <<",", " ">>}

\* what the functions search_elasticsearch_logs and search_kibana_logs take
\* searches with the default time range and sort field, and searches of a
\* range of ISO 8601 times in ascending order of log.level
FunctionArgs ==
    {Args("logs-*", "now-15m", "now", q, f, <<>>, "@timestamp", o, n) :
        q \in Queries, f \in FieldLists, o \in SortOrders, n \in Sizes}
    \cup {Args("logs-*", "2026-02-06T00:00:00.000Z", "2026-02-16T23:59:59.000Z", q, f, <<>>,
                "log.level", "asc", 1) :
            q \in Queries, f \in FieldLists}

\* the search criteria a caller has for a tool.  The tools have no parameter
\* for the sort field and the sort order: these two are what the caller wants,
\* and no tool reads them
ToolArgs(index_patterns) ==
    {Args(i, "now-15m", "now", q, None, f, "@timestamp", "desc", n) :
        i \in index_patterns, q \in Queries, f \in FieldStrings, n \in Sizes}
    \cup {Args(i, "2026-02-06T00:00:00.000Z", "2026-02-16T23:59:59.000Z", q, None, f,
                "log.level", "asc", 1) :
            i \in index_patterns, q \in Queries, f \in FieldStrings}

\* a request to a backend: the search body, the Authorization header's API
\* key ("" when the header is not set) and the basic credentials (<<>> when
\* auth is None)
Request(backend, index, body, api_key, auth) ==
    [backend |-> backend, index |-> index, body |-> body, api_key |-> api_key,
     auth |-> auth]

\* how far a function got before the network: the exception it raised, or
\* the clients it created and the requests it issues
Prepared(exc, n_clients, reqs) == [exc |-> exc, clients |-> n_clients, requests |-> reqs]

\* a JSON error envelope; `error` and `details` are sequences of text parts
Envelope(error, message, has_details, details) ==
    [error |-> error, message |-> message, has_details |-> has_details,
     details |-> details]
NoEnvelope == Envelope(<<>>, "", FALSE, <<>>)

\* what an invocation gave its caller: "return" (a function's dict), "raise"
\* (a function's exception), "json" (a tool's serialized result) or
\* "envelope" (a tool's error envelope)
Result(kind, value, exc, envelope) ==
    [kind |-> kind, value |-> value, exc |-> exc, envelope |-> envelope]
NoResult == Result("none", NoValue, NoExc, NoEnvelope)

\* a function's outcome as the result of a direct call
Direct(outcome) ==
    IF outcome.exc = NoExc
    THEN Result("return", outcome.value, NoExc, NoEnvelope)
    ELSE Result("raise", NoValue, outcome.exc, NoEnvelope)

----------------------------------------------------------------------------
(* The Elastic server: src/kibana/elastic.py *)

\* create_elasticsearch_client(), called with no api_key and no hosts: the
\* exception it raises, or the API key the client is built with
create_elasticsearch_client ==
    LET api_key == env.ELASTIC_API_KEY
    IN  IF env.ELASTIC_URL # ""
        THEN [exc |-> NoExc, api_key |-> api_key]
        ELSE [exc |-> Exc("ValueError",
                          <<"No Elasticsearch connection configuration found.">>),
              api_key |-> ""]

\* search_elasticsearch_logs without the check of sort_order
search_elasticsearch_logs_prepare_unvalidated(a) ==
    LET client == create_elasticsearch_client
    IN  IF client.exc # NoExc
        THEN Prepared(client.exc, 0, <<>>)
        ELSE Prepared(NoExc, 1,
                 <<Request("elasticsearch", a.index_pattern,
                           search_elasticsearch_logs_query_body(a),
                           client.api_key, <<>>)>>)

\* search_elasticsearch_logs up to client.search(), called with client=None
search_elasticsearch_logs_prepare(a) ==
    IF a.sort_order \notin {"desc", "asc"}
    THEN Prepared(Exc("ValueError", <<"Invalid sort_order: ", a.sort_order>>), 0, <<>>)
    ELSE LET client == create_elasticsearch_client
         IN  IF client.exc # NoExc
             THEN Prepared(client.exc, 0, <<>>)
             ELSE Prepared(NoExc, 1,
                      <<Request("elasticsearch", a.index_pattern,
                                search_elasticsearch_logs_query_body(a),
                                client.api_key, <<>>)>>)

\* search_elasticsearch_logs from the answer of client.search() on; the
\* client raises on a transport failure and on an HTTP error status, and
\* the function raises again what it catches
search_elasticsearch_logs_finish(r) ==
    IF r.kind = "transport" THEN Raise("ConnectionError", <<r.text>>)
    ELSE IF r.kind = "http_error" THEN Raise("ApiError", <<r.status, r.text>>)
    ELSE search_elasticsearch_logs_format(r.data)

\* search_kibana_logs up to client.post(), called with no kibana_url, username,
\* password or api_key
elastic_search_kibana_logs_prepare(a) ==
    IF a.sort_order \notin {"desc", "asc"}
    THEN Prepared(Exc("ValueError", <<"Invalid sort_order: ", a.sort_order>>), 0, <<>>)
    ELSE LET kibana_url == env.KIBANA_URL
             username == env.KIBANA_USERNAME
             password == env.KIBANA_PASSWORD
             api_key == env.ELASTIC_API_KEY
             auth == IF api_key # "" THEN <<>>
                     ELSE IF username # "" /\ password # "" THEN <<username, password>>
                     ELSE <<>>
         IN  IF kibana_url = ""
             THEN Prepared(Exc("ValueError", <<"No Kibana URL configured.">>), 0, <<>>)
             ELSE Prepared(NoExc, 1,
                      <<Request("kibana", a.index_pattern,
                                elastic_search_kibana_logs_query_body(a),
                                api_key, auth)>>)

\* search_kibana_logs from the answer of client.post() on
elastic_search_kibana_logs_finish(r) ==
    IF r.kind = "http_error"
    THEN Raise("Exception", <<"Kibana API error: ", r.status, " - ", r.text>>)
    ELSE IF r.kind = "transport" THEN Raise("ConnectError", <<r.text>>)
    ELSE elastic_search_kibana_logs_format(r.data)

\* the arguments fetch_elasticsearch_logs hands to the search function
fetch_elasticsearch_logs_args(a) ==
    LET field_list ==
            IF a.fields_str # <<>> THEN List(strip_each(str_split(a.fields_str)))
            ELSE None
    IN  Args(a.index_pattern, a.time_from, a.time_to, a.query, field_list,
             a.fields_str, "@timestamp", "desc", a.size)

\* fetch_elasticsearch_logs asking the Kibana proxy and direct Elasticsearch
fetch_elasticsearch_logs_prepare_both(a) ==
    LET by_kibana == elastic_search_kibana_logs_prepare(fetch_elasticsearch_logs_args(a))
        direct == search_elasticsearch_logs_prepare(fetch_elasticsearch_logs_args(a))
    IN  IF by_kibana.exc # NoExc THEN direct
        ELSE IF direct.exc # NoExc THEN by_kibana
        ELSE Prepared(NoExc, 2, by_kibana.requests \o direct.requests)

\* fetch_elasticsearch_logs up to the backend request
fetch_elasticsearch_logs_prepare(a) ==
    LET use_kibana == env.KIBANA_URL # ""
    IN  IF use_kibana
        THEN elastic_search_kibana_logs_prepare(fetch_elasticsearch_logs_args(a))
        ELSE search_elasticsearch_logs_prepare(fetch_elasticsearch_logs_args(a))

\* fetch_elasticsearch_logs without its try: the exception of the search
\* function leaves the tool
fetch_elasticsearch_logs_return_raising(outcome) ==
    IF outcome.exc = NoExc
    THEN Result("json", outcome.value, NoExc, NoEnvelope)
    ELSE Result("raise", NoValue, outcome.exc, NoEnvelope)

\* what fetch_elasticsearch_logs returns for the outcome of the search function
fetch_elasticsearch_logs_return(outcome) ==
    IF outcome.exc = NoExc
    THEN Result("json", outcome.value, NoExc, NoEnvelope)
    ELSE Result("envelope", NoValue, NoExc,
                Envelope(outcome.exc.text,
                         "Failed to fetch logs. Check configuration and credentials.",
                         FALSE, <<>>))

\* fetch_elasticsearch_logs from the backend's answer on
fetch_elasticsearch_logs_finish(r) ==
    LET use_kibana == env.KIBANA_URL # ""
    IN  IF use_kibana
        THEN fetch_elasticsearch_logs_return(elastic_search_kibana_logs_finish(r))
        ELSE fetch_elasticsearch_logs_return(search_elasticsearch_logs_finish(r))

----------------------------------------------------------------------------
(* The Kibana server: src/kibana/kibana.py *)

\* the configuration checks of search_kibana_logs
kibana_search_kibana_logs_configuration ==
    LET kibana_url == env.KIBANA_URL
        api_key == env.KIBANA_API_KEY
    IN  IF kibana_url = ""
        THEN Envelope(<<"ConfigurationError">>,
                      "No Kibana URL configured. Set KIBANA_URL environment variable.",
                      FALSE, <<>>)
        ELSE IF api_key = ""
        THEN Envelope(<<"ConfigurationError">>,
                      "No API key configured. Set KIBANA_API_KEY environment variable.",
                      FALSE, <<>>)
        ELSE NoEnvelope

\* the request search_kibana_logs posts
kibana_search_kibana_logs_request(a) ==
    LET field_list ==
            IF a.fields_str # <<>>
            THEN List(strip_each_if_nonempty(str_split(a.fields_str)))
            ELSE None
        index_pattern == IF a.index_pattern = "" THEN DATA_VIEW_ID ELSE a.index_pattern
    IN  Request("kibana", index_pattern, kibana_search_kibana_logs_es_query(a, field_list),
                env.KIBANA_API_KEY, <<>>)

\* search_kibana_logs from the answer of client.post() on
kibana_search_kibana_logs_finish(r) ==
    IF r.kind = "http_error"
    THEN Result("envelope", NoValue, NoExc,
                Envelope(<<"HTTPError">>, "Failed to search logs", TRUE,
                         <<"HTTP ", r.status, ": ", r.text>>))
    ELSE IF r.kind = "transport"
    THEN Result("envelope", NoValue, NoExc,
                Envelope(<<"ConnectionError">>, "Cannot connect to Kibana", TRUE,
                         <<r.text>>))
    ELSE LET formatted == _format_search_response(r.data)
         IN  IF formatted.exc = NoExc
             THEN Result("json", formatted.value, NoExc, NoEnvelope)
             ELSE Result("envelope", NoValue, NoExc,
                         Envelope(<<"SearchError">>, "Failed to search logs", TRUE,
                                  formatted.exc.text))

----------------------------------------------------------------------------
(* The status and link tools of the Kibana server: src/kibana/kibana.py *)

\* the arguments of fetch_kibana_status, fetch_kibana_logs (its `fields` as
\* `columns`, its `discover_view_id` as `view_id`) and
\* generate_kibana_discover_url; an argument a tool does not have is empty,
\* and so is an Optional[str] that is None
KibanaArgs(view_id, time_from, time_to, query, index_pattern, columns, kibana_url, api_key) ==
    [view_id |-> view_id, time_from |-> time_from, time_to |-> time_to,
     query |-> query, index_pattern |-> index_pattern, columns |-> columns,
     kibana_url |-> kibana_url, api_key |-> api_key]
NoKibanaArgs == KibanaArgs(<<>>, <<>>, <<>>, <<>>, <<>>, <<>>, <<>>, "")

\* the "parameters" a link tool reports beside the link; `columns` None is
\* the string "default", `query` <<>> the string "(all)"
Parameters(index_pattern, time_from, time_to, query, columns, view_id) ==
    [index_pattern |-> index_pattern, time_from |-> time_from, time_to |-> time_to,
     query |-> query, columns |-> columns, view_id |-> view_id]
NoParameters == Parameters(<<>>, <<>>, <<>>, <<>>, None, <<>>)

\* what a link tool built: the base URL and view id it gave _build_discover_url,
\* the two states handed to the encoder, the link and the reported parameters
Discover(built, kibana_base_url, view_id, global_state, app_state, discover_url, parameters) ==
    [built |-> built, kibana_base_url |-> kibana_base_url, view_id |-> view_id,
     global_state |-> global_state, app_state |-> app_state,
     discover_url |-> discover_url, parameters |-> parameters]
NoDiscover == Discover(FALSE, <<>>, <<>>, RisonNull, RisonNull, <<>>, NoParameters)

\* global_state of _build_discover_url
_build_discover_url_global_state(time_from, time_to) ==
    RisonDict(<<<<"filters">>, <<"refreshInterval">>, <<"time">>>>,
              <<RisonList(<<>>),
                RisonDict(<<<<"pause">>, <<"value">>>>, <<RisonBool(TRUE), RisonInt(60000)>>),
                RisonDict(<<<<"from">>, <<"to">>>>, <<RisonStr(time_from), RisonStr(time_to)>>)>>)

\* app_state of _build_discover_url; `columns` is an Optional[List[str]]
_build_discover_url_app_state(query, index_pattern, columns) ==
    LET data_view_id == IF index_pattern # <<>> THEN index_pattern ELSE DATA_VIEW_ID_text
        shown == IF columns.none
                 THEN <<<<"logback.mdc.guid">>, <<"logback.mdc.txnCode">>, <<"message">>,
                        <<"log.level">>, <<"k8s.deployment.name">>>>
                 ELSE columns.list
    IN  RisonDict(
            <<<<"columns">>, <<"dataSource">>, <<"filters">>, <<"hideChart">>,
              <<"interval">>, <<"query">>, <<"sort">>, <<"viewMode">>>>,
            <<RisonList([i \in 1..Len(shown) |-> RisonStr(shown[i])]),
              RisonDict(<<<<"dataViewId">>, <<"type">>>>,
                        <<RisonStr(data_view_id), RisonStr(<<"dataView">>)>>),
              RisonList(<<>>),
              RisonBool(FALSE),
              RisonStr(<<"auto">>),
              RisonDict(<<<<"language">>, <<"query">>>>,
                        <<RisonStr(<<"kuery">>), RisonStr(query)>>),
              RisonList(<<RisonList(<<RisonStr(<<"@", "timestamp">>), RisonStr(<<"desc">>)>>)>>),
              RisonStr(<<"documents">>)>>)

\* the link with the two states put in as they come from the encoder
_build_discover_url_unquoted(kibana_base_url, view_id, time_from, time_to, query, index_pattern, columns) ==
    str_rstrip_slash(kibana_base_url)
    \o <<"/", "app", "/", "discover", "#", "/", "view", "/">> \o view_id
    \o <<"?", "_g", "=">>
    \o _encode_rison(_build_discover_url_global_state(time_from, time_to))
    \o <<"&", "_a", "=">>
    \o _encode_rison(_build_discover_url_app_state(query, index_pattern, columns))

\* _build_discover_url(...)
_build_discover_url(kibana_base_url, view_id, time_from, time_to, query, index_pattern, columns) ==
    LET g_param == quote(_encode_rison(_build_discover_url_global_state(time_from, time_to)))
        a_param ==
            quote(_encode_rison(_build_discover_url_app_state(query, index_pattern, columns)))
    IN  str_rstrip_slash(kibana_base_url)
        \o <<"/", "app", "/", "discover", "#", "/", "view", "/">> \o view_id
        \o <<"?", "_g", "=">> \o g_param \o <<"&", "_a", "=">> \o a_param

\* a link tool that asks Kibana for its status before it answers
LinkStarted_probing(res, built) ==
    [result |-> res, discover |-> built, clients |-> 1,
     requests |-> <<Request("kibana", "", QueryBody(<<>>, <<>>, <<>>, 0, FALSE, <<>>),
                            env.KIBANA_API_KEY, <<>>)>>]

\* how a link tool ends: with its result and what it built, having created
\* no client and issued no request
LinkStarted(res, built) ==
    [result |-> res, discover |-> built, clients |-> 0, requests |-> <<>>]

\* base_url with host.containers.internal replaced for the browser
browser_url(base_url) ==
    IF \E i \in 1..Len(base_url) : base_url[i] = "host.containers.internal"
    THEN str_replace_container_host(base_url)
    ELSE base_url

\* the comma-separated `fields` or `columns` of a link tool as a list
columns_list(columns) ==
    IF columns # <<>> THEN List(strip_each_if_nonempty(str_split(columns))) ELSE None

\* what a link tool built for the base URL and the arguments
Built(base_url, a) ==
    Discover(TRUE, browser_url(base_url), a.view_id,
             _build_discover_url_global_state(a.time_from, a.time_to),
             _build_discover_url_app_state(a.query, a.index_pattern, columns_list(a.columns)),
             _build_discover_url(browser_url(base_url), a.view_id, a.time_from, a.time_to,
                                 a.query, a.index_pattern, columns_list(a.columns)),
             Parameters(IF a.index_pattern # <<>> THEN a.index_pattern ELSE DATA_VIEW_ID_text,
                        a.time_from, a.time_to, a.query,
                        IF Truthy(columns_list(a.columns)) THEN columns_list(a.columns) ELSE None,
                        a.view_id))

\* the tool fetch_kibana_logs; _build_discover_url raises nothing, so the
\* URLGenerationError envelope is never returned
fetch_kibana_logs(a) ==
    LET base_url == Text(env.KIBANA_URL)
    IN  IF base_url = <<>>
        THEN LinkStarted(
                 Result("envelope", NoValue, NoExc,
                        Envelope(<<"ConfigurationError">>,
                                 "No Kibana URL configured. Set KIBANA_URL environment variable.",
                                 FALSE, <<>>)),
                 NoDiscover)
        ELSE LinkStarted(Result("json", NoValue, NoExc, NoEnvelope), Built(base_url, a))

\* the tool generate_kibana_discover_url
generate_kibana_discover_url(a) ==
    LET base_url == IF a.kibana_url # <<>> THEN a.kibana_url ELSE Text(env.KIBANA_URL)
    IN  IF base_url = <<>>
        THEN LinkStarted(
                 Result("envelope", NoValue, NoExc,
                        Envelope(<<"ConfigurationError">>,
                                 "No Kibana URL configured. Set KIBANA_URL environment variable or provide kibana_url parameter.",
                                 FALSE, <<>>)),
                 NoDiscover)
        ELSE LinkStarted(Result("json", NoValue, NoExc, NoEnvelope), Built(base_url, a))

----------------------------------------------------------------------------
(* The tool fetch_kibana_status: src/kibana/kibana.py *)

\* fetch_kibana_status checking the Kibana URL only
fetch_kibana_status_configuration_url_only(a) ==
    LET kibana_url == IF a.kibana_url # <<>> THEN a.kibana_url ELSE Text(env.KIBANA_URL)
    IN  IF kibana_url = <<>>
        THEN Envelope(<<"ConfigurationError">>,
                      "No Kibana URL configured. Set KIBANA_URL environment variable or provide kibana_url parameter.",
                      FALSE, <<>>)
        ELSE NoEnvelope
\* the configuration checks of fetch_kibana_status
fetch_kibana_status_configuration(a) ==
    LET kibana_url == IF a.kibana_url # <<>> THEN a.kibana_url ELSE Text(env.KIBANA_URL)
        api_key == IF a.api_key # "" THEN a.api_key ELSE env.KIBANA_API_KEY
    IN  IF kibana_url = <<>>
        THEN Envelope(<<"ConfigurationError">>,
                      "No Kibana URL configured. Set KIBANA_URL environment variable or provide kibana_url parameter.",
                      FALSE, <<>>)
        ELSE IF api_key = ""
        THEN Envelope(<<"ConfigurationError">>,
                      "No API key configured. Set KIBANA_API_KEY environment variable or provide api_key parameter.",
                      FALSE, <<>>)
        ELSE NoEnvelope

\* the GET of /api/status: it names no index and has no body
fetch_kibana_status_request(a) ==
    LET api_key == IF a.api_key # "" THEN a.api_key ELSE env.KIBANA_API_KEY
    IN  Request("kibana", "", QueryBody(<<>>, <<>>, <<>>, 0, FALSE, <<>>), api_key, <<>>)

\* fetch_kibana_status from the answer of client.get() on; the status
\* document is returned as it came
fetch_kibana_status_finish(r) ==
    IF r.kind = "http_error"
    THEN Result("envelope", NoValue, NoExc,
                Envelope(<<"HTTPError">>, "Failed to fetch Kibana status", TRUE,
                         <<"HTTP ", r.status, ": ", r.text>>))
    ELSE IF r.kind = "transport"
    THEN Result("envelope", NoValue, NoExc,
                Envelope(<<"ConnectionError">>,
                         "Cannot connect to Kibana. Check if the URL is correct and the service is running.",
                         TRUE, <<r.text>>))
    ELSE IF r.kind = "not_json"
    THEN Result("envelope", NoValue, NoExc,
                Envelope(<<"UnexpectedError">>, "An unexpected error occurred", TRUE,
                         <<"Expecting value: line 1 column 1 (char 0)">>))
    ELSE Result("json", NoValue, NoExc, NoEnvelope)

\* what Kibana answers to GET /api/status: the status document when it is
\* up; a failure, or HTTP 200 with a body that is not JSON, when it is not
StatusResponses ==
    IF "kibana" \in up
    THEN {Response("ok", "200", "{\"status\": {\"overall\": {\"level\": \"available\"}}}",
                   NoPayload)}
    ELSE Failures \cup {Response("not_json", "200", "<!DOCTYPE html>", NoPayload)}

----------------------------------------------------------------------------
(* Invocations *)

Call(entry, args) == [entry |-> entry, args |-> args]
NoCall == Call("", NoArgs)

\* how an invocation starts: the result it gives at once (NoResult when it
\* goes on to the network), the clients it created and the requests it issues
Started(res, n_clients, reqs) == [result |-> res, clients |-> n_clients, requests |-> reqs]

\* a direct call of a search function
StartFunction(prepared) ==
    IF prepared.exc # NoExc
    THEN Started(Direct(Outcome(prepared.exc, NoValue)), prepared.clients, <<>>)
    ELSE Started(NoResult, prepared.clients, prepared.requests)

\* the tool fetch_elasticsearch_logs: an exception of the search function
\* becomes an envelope
StartFetchElasticsearchLogs(a) ==
    LET prepared == fetch_elasticsearch_logs_prepare(a)
    IN  IF prepared.exc # NoExc
        THEN Started(fetch_elasticsearch_logs_return(Outcome(prepared.exc, NoValue)),
                     prepared.clients, <<>>)
        ELSE Started(NoResult, prepared.clients, prepared.requests)

\* the tool search_kibana_logs of the Kibana server
StartKibanaSearchKibanaLogs(a) ==
    LET refused == kibana_search_kibana_logs_configuration
    IN  IF refused # NoEnvelope
        THEN Started(Result("envelope", NoValue, NoExc, refused), 0, <<>>)
        ELSE Started(NoResult, 1, <<kibana_search_kibana_logs_request(a)>>)

\* what the invocation gives its caller once the backend has answered
Finish(entry, r) ==
    CASE entry = "search_elasticsearch_logs" ->
            Direct(search_elasticsearch_logs_finish(r))
      [] entry = "elastic.search_kibana_logs" ->
            Direct(elastic_search_kibana_logs_finish(r))
      [] entry = "fetch_elasticsearch_logs" ->
            fetch_elasticsearch_logs_finish(r)
      [] entry = "kibana.search_kibana_logs" ->
            kibana_search_kibana_logs_finish(r)
      [] entry = "fetch_kibana_status" ->
            fetch_kibana_status_finish(r)

Invoke(entry, a, started) ==
    /\ pc = "idle"
    /\ call' = Call(entry, a)
    /\ clients' = started.clients
    /\ requests' = started.requests
    /\ result' = started.result
    /\ pc' = IF started.result = NoResult THEN "waiting" ELSE "done"
    /\ UNCHANGED <<env, up, response, risonVars, linkVars, taskVars, redmineVars>>

\* search_elasticsearch_logs(...) is called
InvokeSearchElasticsearchLogs ==
    /\ env.server = "elastic"
    /\ \E a \in FunctionArgs :
        Invoke("search_elasticsearch_logs", a,
               StartFunction(search_elasticsearch_logs_prepare(a)))

\* search_kibana_logs(...) of the Elastic server is called
InvokeElasticSearchKibanaLogs ==
    /\ env.server = "elastic"
    /\ \E a \in FunctionArgs :
        Invoke("elastic.search_kibana_logs", a,
               StartFunction(elastic_search_kibana_logs_prepare(a)))

\* the tool fetch_elasticsearch_logs is called
InvokeFetchElasticsearchLogs ==
    /\ env.server = "elastic"
    /\ \E a \in ToolArgs({"logs-*"}) :
        Invoke("fetch_elasticsearch_logs", a, StartFetchElasticsearchLogs(a))

\* the tool search_kibana_logs of the Kibana server is called
InvokeKibanaSearchKibanaLogs ==
    /\ env.server = "kibana"
    /\ \E a \in ToolArgs({"logs-*", ""}) :
        Invoke("kibana.search_kibana_logs", a, StartKibanaSearchKibanaLogs(a))

\* the tool fetch_kibana_status
StartFetchKibanaStatus(a) ==
    LET refused == fetch_kibana_status_configuration(a)
    IN  IF refused # NoEnvelope
        THEN Started(Result("envelope", NoValue, NoExc, refused), 0, <<>>)
        ELSE Started(NoResult, 1, <<fetch_kibana_status_request(a)>>)

\* what callers give the link tools
LinkTimes ==
    {<<"now", "-", "15m">>,
     <<"2026", "-", "02", "-", "06", "T", "00", ":", "00", ":", "00.000Z">>}
LinkQueries == {<<>>, <<"log.level", ":", "ERROR">>}
LinkIndexPatterns == {<<>>, <<"logs", "-", "*">>}
\* "", "message, log.level" and ", "
LinkColumns == {<<>>, <<"message", ",", " ", "log.level">>, <<",", " ">>}
\* "" (None) and "https://host.containers.internal/kibana//"
LinkUrls ==
    {<<>>, <<"https", ":", "/", "/", "host.containers.internal", "/", "kibana", "/", "/">>}
\* the default of discover_view_id
LinkViewId == <<"a67db0ea", "-", "ad22", "-", "42af", "-", "813f", "-", "ffefb7ad1f4f">>

\* a status or link tool is called: the link tools answer at once
InvokeKibana(entry, a, started, built) ==
    /\ pc = "idle"
    /\ call' = Call(entry, NoArgs)
    /\ kibanaArgs' = a
    /\ clients' = started.clients
    /\ requests' = started.requests
    /\ result' = started.result
    /\ discover' = built
    /\ pc' = IF started.result = NoResult THEN "waiting" ELSE "done"
    /\ UNCHANGED <<env, up, response, risonVars, taskVars, redmineVars>>

\* the tool fetch_kibana_status is called
InvokeFetchKibanaStatus ==
    /\ env.server = "kibana"
    /\ \E u \in LinkUrls, k \in {"", "VnVhQ2ZHY0JDZGJrU"} :
        LET a == KibanaArgs(<<>>, <<>>, <<>>, <<>>, <<>>, <<>>, u, k)
        IN  InvokeKibana("fetch_kibana_status", a, StartFetchKibanaStatus(a), NoDiscover)

\* the tool fetch_kibana_logs is called
InvokeFetchKibanaLogs ==
    /\ env.server = "kibana"
    /\ \E f \in LinkTimes, q \in LinkQueries, i \in LinkIndexPatterns, c \in LinkColumns :
        LET a == KibanaArgs(LinkViewId, f, <<"now">>, q, i, c, <<>>, "")
        IN  InvokeKibana("fetch_kibana_logs", a, fetch_kibana_logs(a),
                         fetch_kibana_logs(a).discover)

\* the tool generate_kibana_discover_url is called
InvokeGenerateKibanaDiscoverUrl ==
    /\ env.server = "kibana"
    /\ \E f \in LinkTimes, q \in LinkQueries, i \in LinkIndexPatterns, c \in LinkColumns,
          u \in LinkUrls :
        LET a == KibanaArgs(LinkViewId, f, <<"now">>, q, i, c, u, "")
        IN  InvokeKibana("generate_kibana_discover_url", a, generate_kibana_discover_url(a),
                         generate_kibana_discover_url(a).discover)

\* the searches, which take the arguments of `call`
SearchEntries ==
    {"search_elasticsearch_logs", "elastic.search_kibana_logs",
     "fetch_elasticsearch_logs", "kibana.search_kibana_logs"}

\* Kibana answers the status request in flight and the tool ends
RespondStatus ==
    /\ pc = "waiting"
    /\ call.entry = "fetch_kibana_status"
    /\ \E r \in StatusResponses :
        /\ response' = r
        /\ result' = Finish(call.entry, r)
    /\ pc' = "done"
    /\ UNCHANGED <<env, up, call, clients, requests, risonVars, linkVars, taskVars,
                   redmineVars>>

\* the backend answers the request in flight and the invocation ends
Respond ==
    /\ pc = "waiting"
    /\ call.entry \in SearchEntries
    /\ \E r \in ResponsesOf(requests[Len(requests)].backend) :
        /\ response' = r
        /\ result' = Finish(call.entry, r)
    /\ pc' = "done"
    /\ UNCHANGED <<env, up, call, clients, requests, risonVars, linkVars, taskVars,
                   redmineVars>>

\* the caller takes the result; the server is ready for the next call
Complete ==
    /\ pc = "done"
    /\ pc' = "idle"
    /\ call' = NoCall
    /\ clients' = 0
    /\ requests' = <<>>
    /\ response' = NoResponse
    /\ result' = NoResult
    /\ kibanaArgs' = NoKibanaArgs
    /\ discover' = NoDiscover
    /\ UNCHANGED <<env, up, risonVars, taskVars, redmineVars>>

----------------------------------------------------------------------------
(* The state encoder applied to one string *)

RisonAlphabet == {"'", ":", "!", ",", "(", ")", "@", "-", " ", "a", ".", "_"}
RisonStrings == SeqsUpTo(RisonAlphabet, MaxStrLen) \cup {LogLevel, K8sDeployment}

Encoded(done, s) == [done |-> done, s |-> s]
NotEncoded == Encoded(FALSE, <<>>)

\* _encode_rison(risonIn) is called and returns
EncodeRison ==
    /\ ~risonOut.done
    /\ risonOut' = Encoded(TRUE, _encode_rison_str(risonIn))
    /\ UNCHANGED <<searchVars, linkVars, risonIn, taskVars, redmineVars>>

----------------------------------------------------------------------------
(* The state encoder applied to one nested value *)

\* the sequences of pairwise different elements of S, of length at most n
DistinctSeqsUpTo(S, n) ==
    {k \in SeqsUpTo(S, n) : \A i, j \in 1..Len(k) : i # j => k[i] # k[j]}

\* the lists of at most n elements of `values`
RisonLists(values, n) == {RisonList(l) : l \in SeqsUpTo(values, n)}
\* the dicts of at most n keys, with values of `values`
RisonDicts(values, n) ==
    {RisonDict(kv[1], kv[2]) :
        kv \in {p \in DistinctSeqsUpTo({<<"a">>, <<"b">>, <<"a", ":", "1", ",", "b">>}, n)
                       \X SeqsUpTo(values, n) : Len(p[1]) = Len(p[2])}}

\* None, True, False, 0, 1, "", "x", "1" and "'"
RisonLeaves ==
    {RisonNull, RisonBool(TRUE), RisonBool(FALSE), RisonInt(0), RisonInt(1),
     RisonStr(<<>>), RisonStr(<<"x">>), RisonStr(<<"1">>), RisonStr(<<"'">>)}

\* the lists and dicts of at most one element, that element None, 1 or "x"
RisonSmall ==
    RisonLists({RisonNull, RisonInt(1), RisonStr(<<"x">>)}, 1)
    \cup RisonDicts({RisonNull, RisonInt(1), RisonStr(<<"x">>)}, 1)

\* {"a": 1, "b": [True, None, "x"]}
RisonExample ==
    RisonDict(<<<<"a">>, <<"b">>>>,
              <<RisonInt(1),
                RisonList(<<RisonBool(TRUE), RisonNull, RisonStr(<<"x">>)>>)>>)

\* the values handed to the encoder: leaves, lists and dicts of leaves, lists
\* and dicts of small lists and dicts, -1, 60000 and the example
RisonValues ==
    RisonLeaves
    \cup RisonLists(RisonLeaves, MaxItems) \cup RisonDicts(RisonLeaves, MaxKeys)
    \cup RisonLists(RisonSmall, MaxItems) \cup RisonDicts(RisonSmall, 1)
    \cup {RisonInt(0 - 1), RisonInt(60000), RisonExample}

\* _encode_rison(risonIn) is called with a nested value and returns
EncodeRisonValue ==
    /\ ~risonOut.done
    /\ risonOut' = Encoded(TRUE, _encode_rison(risonIn))
    /\ UNCHANGED <<searchVars, linkVars, risonIn, taskVars, redmineVars>>

----------------------------------------------------------------------------
(* Search coroutines on one event loop *)

\* search_kibana_logs is a coroutine in both servers: it gives up the event
\* loop where it enters the HTTP client and where it awaits client.post(),
\* and other invocations of it run in between.  A task is one invocation:
\* its position, its arguments, and its locals: the query document it built
\* (`prepared`, empty before it is built), the requests it posted, the answer
\* it got and what it returned
Task(at, a, prepared, posted, r, res) ==
    [pc |-> at, args |-> a, prepared |-> prepared, requests |-> posted,
     response |-> r, result |-> res]
Tasks == 1..MaxTasks
NoTasks == [t \in Tasks |-> Task("idle", NoArgs, <<>>, <<>>, NoResponse, NoResult)]

\* the coroutine of the server the process is
TaskEntry ==
    IF env.server = "kibana" THEN "kibana.search_kibana_logs"
    ELSE "elastic.search_kibana_logs"

\* the arguments of the concurrent invocations
TaskArgs ==
    IF env.server = "kibana"
    THEN {a \in ToolArgs({"logs-*"}) :
            a.size = 1 /\ a.time_from = "now-15m" /\ a.fields_str # <<",", " ">>}
    ELSE {a \in FunctionArgs :
            a.size = 1 /\ a.time_from = "now-15m" /\ a.fields = None
            /\ a.sort_order \in {"desc", "descending"}}

\* what the backend answers to the concurrent invocations
TaskResponses ==
    {r \in Responses :
        \/ r.kind = "transport"
        \/ /\ r.kind = "ok"
           /\ ValidPayload(r.data)
           /\ r.data.total.tag = "int"
           /\ Len(r.data.hits) = r.data.total.n
           /\ Len(r.data.hits) <= 1
           /\ \A i \in 1..Len(r.data.hits) : r.data.hits[i].has_score}

\* the coroutine up to `async with httpx.AsyncClient(...)`: the configuration
\* is read, the arguments are checked and the query document is built
TaskStarted(a) ==
    IF env.server = "kibana"
    THEN StartKibanaSearchKibanaLogs(a)
    ELSE StartFunction(elastic_search_kibana_logs_prepare(a))

\* the document shared by every invocation: what client.post() would send
\* if the query document were a module-level object
client_post_json_shared(t) ==
    LET others == {u \in Tasks : u # t /\ tasks[u].prepared # <<>>}
    IN  IF others # {} THEN tasks[CHOOSE u \in others : TRUE].prepared
        ELSE tasks[t].prepared
\* json=es_query (json=query_body in the Elastic server) of client.post():
\* the local of this invocation
client_post_json(t) == tasks[t].prepared

\* an invocation begins and runs to its first await
StartTask ==
    \E t \in Tasks, a \in TaskArgs :
        /\ tasks[t].pc = "idle"
        /\ LET started == TaskStarted(a)
           IN  tasks' = [tasks EXCEPT ![t] =
                    IF started.result # NoResult
                    THEN Task("done", a, <<>>, <<>>, NoResponse, started.result)
                    ELSE Task("entering", a, started.requests, <<>>, NoResponse, NoResult)]
        /\ UNCHANGED <<searchVars, risonVars, linkVars, redmineVars>>

\* the client is entered: the invocation posts its query document
PostTask ==
    \E t \in Tasks :
        /\ tasks[t].pc = "entering"
        /\ tasks' = [tasks EXCEPT ![t].pc = "waiting",
                                  ![t].requests = client_post_json(t)]
        /\ UNCHANGED <<searchVars, risonVars, linkVars, redmineVars>>

\* the backend answers one of the requests in flight; the invocation
\* normalizes the answer and returns
RespondTask ==
    \E t \in Tasks, r \in TaskResponses :
        /\ tasks[t].pc = "waiting"
        /\ tasks' = [tasks EXCEPT ![t].pc = "done",
                                  ![t].response = r,
                                  ![t].result = Finish(TaskEntry, r)]
        /\ UNCHANGED <<searchVars, risonVars, linkVars, redmineVars>>

----------------------------------------------------------------------------
(* The Redmine server: requests and answers *)

\* min(a, b) of Python
min(a, b) == IF a <= b THEN a ELSE b

\* an endpoint handed to make_redmine_request: the path, as its components,
\* and the query parameters, as pairs of a name and a value, in order
Endpoint(path, params) == [path |-> path, params |-> params]

\* "total_count" of an answer of the Redmine server; the key may be missing
TotalCount(present, n) == [present |-> present, n |-> n]
NoTotalCount == TotalCount(FALSE, 0)
TotalCounts ==
    {NoTotalCount} \cup {TotalCount(TRUE, n) : n \in {0, 1, 100, 101, MaxTotalCount}}

\* what make_redmine_request returns: None when the request failed ("none"),
\* a dict without the key the tool looks for ("nokey"), or a dict with the
\* list of items under that key ("ok") and the server's total_count
RedmineData(kind, items, total) == [kind |-> kind, items |-> items, total |-> total]
NoData == RedmineData("none", <<>>, NoTotalCount)

\* the projects of a page: the server numbers its projects from 1, the page
\* at offset k holds the projects k+1, k+2, ...
Page(k, n) == [j \in 1..n |-> k + j]
\* the answers to the request of the page at offset k; a page is empty, or
\* short of the limit, or full
ProjectsData(k) ==
    {NoData, RedmineData("nokey", <<>>, total_count)}
    \cup {RedmineData("ok", Page(k, n), total_count) : n \in {0, 1, 100}}

\* the issues of an answer to get_issues
IssuesData(total) ==
    {NoData, RedmineData("nokey", <<>>, total)}
    \cup {RedmineData("ok", Page(0, n), total) : n \in 0..2}

\* one attachment of an issue; "filename" and "content_url" may be missing
Attachment(has_filename, filename, has_url, content_url, filesize) ==
    [has_filename |-> has_filename, filename |-> filename, has_url |-> has_url,
     content_url |-> content_url, filesize |-> filesize]
\* the server gives every attachment a download URL of its own; two
\* attachments of an issue may have the same filename
AttachmentLists ==
    UNION {{[i \in 1..n |->
                Attachment(s[i][1][1], s[i][1][2], s[i][2],
                           IF s[i][2] THEN <<"attachments/download", i>> ELSE <<>>, 10 * i)] :
            s \in [1..n -> {<<FALSE, "">>, <<TRUE, "a.log">>, <<TRUE, "b.log">>}
                            \X BOOLEAN]} :
           n \in 0..MaxAttachments}
\* the answers to the request of an issue with its attachments
IssueData ==
    {NoData, RedmineData("nokey", <<>>, NoTotalCount)}
    \cup {RedmineData("ok", l, NoTotalCount) : l \in AttachmentLists}

----------------------------------------------------------------------------
(* The Redmine server: paths *)

\* a path is the sequence of its components; an absolute path begins with "/"
cwd == <<"/", "srv">>
RECURSIVE normpath(_)
\* os.path.normpath as far as abspath needs it here: "." components go
normpath(p) ==
    IF p = <<>> THEN <<>>
    ELSE IF Head(p) = "." THEN normpath(Tail(p))
    ELSE <<Head(p)>> \o normpath(Tail(p))
\* os.path.abspath
os_path_abspath(p) ==
    IF p # <<>> /\ Head(p) = "/" THEN normpath(p) ELSE normpath(cwd \o p)
\* os.path.join of two paths: an absolute second path replaces the first
os_path_join(a, b) ==
    IF b # <<>> /\ Head(b) = "/" THEN b ELSE a \o b
\* f"issue_{issue_id}"
issue_dir_name(issue_id) ==
    CASE issue_id = 7 -> "issue_7"
      [] issue_id = 12 -> "issue_12"
\* f"{issue_id}.json"
issue_json_name(issue_id) ==
    CASE issue_id = 7 -> "7.json"
      [] issue_id = 12 -> "12.json"

----------------------------------------------------------------------------
(* The Redmine server: tools *)

\* the tool in progress and its arguments
RedmineCall(tool, project_id, status, limit, issue_id, output_dir) ==
    [tool |-> tool, project_id |-> project_id, status |-> status, limit |-> limit,
     issue_id |-> issue_id, output_dir |-> output_dir]
NoRedmineCall == RedmineCall("", "", "", 0, 0, <<>>)

\* what a tool returns: the kind of text, the numbers in it and its lines
RedmineResult(kind, count, total, lines) ==
    [kind |-> kind, count |-> count, total |-> total, lines |-> lines]
NoRedmineResult == RedmineResult("none", 0, 0, <<>>)

RedmineIdle ==
    /\ redminePc = "idle"
    /\ redmineCall = NoRedmineCall
    /\ total_count = NoTotalCount
    /\ endpoints = <<>>
    /\ pages = <<>>
    /\ all_projects = <<>>
    /\ offset = 0
    /\ attachments = <<>>
    /\ position = 1
    /\ results = <<>>
    /\ success_count = 0
    /\ downloads = <<>>
    /\ files = {}
    /\ redmineResult = NoRedmineResult

\* get_issues: the endpoint with the limit as the caller gave it
get_issues_endpoint_unclamped(project_id, status, limit) ==
    Endpoint(IF project_id # "" THEN <<"projects", project_id, "issues.json">>
             ELSE <<"issues.json">>,
             <<<<"status_id", status>>, <<"limit", limit>>>>)
\* get_issues: the endpoint and its query parameters
get_issues_endpoint(project_id, status, limit) ==
    Endpoint(IF project_id # "" THEN <<"projects", project_id, "issues.json">>
             ELSE <<"issues.json">>,
             <<<<"status_id", status>>, <<"limit", min(limit, 100)>>>>)

\* format_issue, as far as the issue's number
format_issue(issue) == <<"Issue #", issue>>

\* get_issues from the answer of make_redmine_request on
get_issues_return(status, data) ==
    IF data.kind # "ok"
    THEN RedmineResult("Unable to fetch issues or no issues found.", 0, 0, <<>>)
    ELSE IF data.items = <<>>
    THEN RedmineResult("No issues found.", 0, 0, <<status>>)
    ELSE LET issues == [i \in 1..Len(data.items) |-> format_issue(data.items[i])]
             total == IF data.total.present THEN data.total.n ELSE Len(issues)
         IN  RedmineResult("Found issues", Len(issues), total, issues)

\* the tool get_issues is called
InvokeGetIssues ==
    /\ redminePc = "idle"
    /\ \E project_id \in {"", "poc"}, status \in {"open", "*"},
          limit \in {0, 1, 25, 100, 101, 1000} :
        /\ redmineCall' = RedmineCall("get_issues", project_id, status, limit, 0, <<>>)
        /\ endpoints' = <<get_issues_endpoint(project_id, status, limit)>>
    /\ redminePc' = "waiting"
    /\ UNCHANGED <<searchVars, risonVars, linkVars, taskVars, total_count, pages,
                   all_projects, offset, attachments, position, results, success_count,
                   downloads, files, redmineResult>>

\* the Redmine server answers get_issues, or the request fails
RespondIssues ==
    /\ redminePc = "waiting"
    /\ redmineCall.tool = "get_issues"
    /\ \E total \in TotalCounts : \E data \in IssuesData(total) :
        redmineResult' = get_issues_return(redmineCall.status, data)
    /\ redminePc' = "done"
    /\ UNCHANGED <<searchVars, risonVars, linkVars, taskVars, redmineCall, total_count,
                   endpoints, pages, all_projects, offset, attachments, position, results,
                   success_count, downloads, files>>

\* get_projects: f"projects.json?limit={limit}&offset={offset}"
get_projects_endpoint(limit, k) ==
    Endpoint(<<"projects.json">>, <<<<"limit", limit>>, <<"offset", k>>>>)

\* get_projects: the same page again
get_projects_next_offset_same(k, limit) == k
\* get_projects: offset += limit
get_projects_next_offset(k, limit) == k + limit

\* get_projects: one line of the listing for each project
format_project(project) == <<"[", project, "]">>

\* get_projects after the loop
get_projects_return(collected) ==
    IF collected = <<>>
    THEN RedmineResult("No projects found.", 0, 0, <<>>)
    ELSE RedmineResult("Found projects", Len(collected), 0,
                       [i \in 1..Len(collected) |-> format_project(collected[i])])

\* the tool get_projects is called; the server has its total_count
InvokeGetProjects ==
    /\ redminePc = "idle"
    /\ redmineCall' = RedmineCall("get_projects", "", "", 100, 0, <<>>)
    /\ total_count' \in TotalCounts
    /\ all_projects' = <<>>
    /\ offset' = 0
    /\ redminePc' = "paging"
    /\ UNCHANGED <<searchVars, risonVars, linkVars, taskVars, endpoints, pages,
                   attachments, position, results, success_count, downloads, files,
                   redmineResult>>

\* get_projects: one turn of the loop, from the request of a page to the
\* break or to the next offset; after the break the tool returns
FetchProjectsPage ==
    /\ redminePc = "paging"
    /\ endpoints' = Append(endpoints, get_projects_endpoint(redmineCall.limit, offset))
    /\ \E data \in ProjectsData(offset) :
        LET broken == data.kind # "ok" \/ data.items = <<>>
            collected == IF broken THEN all_projects ELSE all_projects \o data.items
            total == IF data.total.present THEN data.total.n ELSE 0
        IN  /\ pages' = Append(pages, data)
            /\ all_projects' = collected
            /\ IF broken \/ Len(collected) >= total
               THEN /\ redminePc' = "done"
                    /\ redmineResult' = get_projects_return(collected)
                    /\ offset' = offset
               ELSE /\ offset' = get_projects_next_offset(offset, redmineCall.limit)
                    /\ UNCHANGED <<redminePc, redmineResult>>
    /\ UNCHANGED <<searchVars, risonVars, linkVars, taskVars, redmineCall, total_count,
                   attachments, position, results, success_count, downloads, files>>

\* download_issue_attachments: the directory of the issue
issue_dir(issue_id, output_dir) ==
    os_path_join(os_path_abspath(output_dir), <<issue_dir_name(issue_id)>>)

\* download_issue_attachments: attachment.get("filename", "unknown")
attachment_filename(attachment) ==
    IF attachment.has_filename THEN attachment.filename ELSE "unknown"

\* download_issue_attachments: where the attachment is saved
attachment_output_path(dir, attachment) ==
    os_path_join(dir, <<attachment_filename(attachment)>>)

\* the tool download_issue_attachments is called, for issue 7 or 12 and with
\* "./downloads" (the default) or "/tmp/out", and requests the issue
InvokeDownloadIssueAttachments ==
    /\ redminePc = "idle"
    /\ \E issue_id \in {7, 12},
          output_dir \in {<<".", "downloads">>, <<"/", "tmp", "out">>} :
        /\ redmineCall' = RedmineCall("download_issue_attachments", "", "", 0, issue_id,
                                      os_path_abspath(output_dir))
        /\ endpoints' = <<Endpoint(<<"issues", issue_json_name(issue_id)>>,
                                   <<<<"include", "attachments">>>>)>>
    /\ redminePc' = "waiting"
    /\ UNCHANGED <<searchVars, risonVars, linkVars, taskVars, total_count, pages,
                   all_projects, offset, attachments, position, results, success_count,
                   downloads, files, redmineResult>>

\* the Redmine server answers with the issue, or the request fails; the
\* directory of the issue is made, or making it fails
RespondIssue ==
    /\ redminePc = "waiting"
    /\ redmineCall.tool = "download_issue_attachments"
    /\ \E data \in IssueData, made \in BOOLEAN :
        IF data.kind # "ok"
        THEN /\ made
             /\ redmineResult' = RedmineResult("Unable to fetch issue", 0, 0, <<>>)
             /\ redminePc' = "done"
             /\ UNCHANGED attachments
        ELSE IF data.items = <<>>
        THEN /\ made
             /\ redmineResult' = RedmineResult("Issue has no attachments.", 0, 0, <<>>)
             /\ redminePc' = "done"
             /\ UNCHANGED attachments
        ELSE IF ~made
        THEN /\ redmineResult' = RedmineResult("Error: Unable to create directory", 0, 0,
                    <<issue_dir(redmineCall.issue_id, redmineCall.output_dir)>>)
             /\ redminePc' = "done"
             /\ UNCHANGED attachments
        ELSE /\ attachments' = data.items
             /\ redminePc' = "downloading"
             /\ UNCHANGED redmineResult
    /\ UNCHANGED <<searchVars, risonVars, linkVars, taskVars, redmineCall, total_count,
                   endpoints, pages, all_projects, offset, position, results,
                   success_count, downloads, files>>

\* download_file: open(output_path, 'wb') and write: the file holds what
\* was downloaded last
download_file_write(disk, output_path, content) ==
    {f \in disk : f.path # output_path} \cup {[path |-> output_path, content |-> content]}

\* download_issue_attachments: one turn of the loop over the attachments,
\* with the call of download_file; after the last turn the tool returns
DownloadAttachment ==
    /\ redminePc = "downloading"
    /\ LET attachment == attachments[position]
           filename == attachment_filename(attachment)
           output_path ==
               attachment_output_path(
                   issue_dir(redmineCall.issue_id, redmineCall.output_dir), attachment)
       IN  /\ IF ~attachment.has_url
              THEN /\ results' = Append(results, <<filename, "No download URL available">>)
                   /\ UNCHANGED <<success_count, downloads, files>>
              ELSE \E ok \in BOOLEAN :
                   /\ downloads' = Append(downloads,
                          [url |-> attachment.content_url,
                           output_path |-> os_path_abspath(output_path), ok |-> ok])
                   /\ files' = IF ok
                               THEN download_file_write(files, os_path_abspath(output_path),
                                                        attachment.content_url)
                               ELSE files
                   /\ success_count' = IF ok THEN success_count + 1 ELSE success_count
                   /\ results' = Append(results,
                          IF ok THEN <<filename, "Verified", output_path>>
                          ELSE <<filename, "Download failed">>)
           /\ position' = position + 1
           /\ IF position = Len(attachments)
              THEN /\ redminePc' = "done"
                   /\ redmineResult' =
                          RedmineResult("Downloaded", success_count', Len(attachments),
                                        results')
              ELSE UNCHANGED <<redminePc, redmineResult>>
    /\ UNCHANGED <<searchVars, risonVars, linkVars, taskVars, redmineCall, total_count,
                   endpoints, pages, all_projects, offset, attachments>>

\* the caller takes the result; the server is ready for the next call,
\* which is made with an output directory that is still empty
CompleteRedmine ==
    /\ redminePc = "done"
    /\ redminePc' = "idle"
    /\ redmineCall' = NoRedmineCall
    /\ total_count' = NoTotalCount
    /\ endpoints' = <<>>
    /\ pages' = <<>>
    /\ all_projects' = <<>>
    /\ offset' = 0
    /\ attachments' = <<>>
    /\ position' = 1
    /\ results' = <<>>
    /\ success_count' = 0
    /\ downloads' = <<>>
    /\ files' = {}
    /\ redmineResult' = NoRedmineResult
    /\ UNCHANGED <<searchVars, risonVars, linkVars, taskVars>>

----------------------------------------------------------------------------
(* Specifications *)

IdleServer ==
    /\ pc = "idle"
    /\ call = NoCall
    /\ clients = 0
    /\ requests = <<>>
    /\ response = NoResponse
    /\ result = NoResult
    /\ kibanaArgs = NoKibanaArgs
    /\ discover = NoDiscover
    /\ tasks = NoTasks
    /\ RedmineIdle

\* a server process with its environment, and the backends as they are
Init ==
    /\ env \in ElasticEnvs \cup KibanaEnvs
    /\ up \in SUBSET Backends
    /\ IdleServer
    /\ risonIn = <<>>
    /\ risonOut = NotEncoded

Next ==
    \/ InvokeSearchElasticsearchLogs
    \/ InvokeElasticSearchKibanaLogs
    \/ InvokeFetchElasticsearchLogs
    \/ InvokeKibanaSearchKibanaLogs
    \/ InvokeFetchKibanaStatus
    \/ InvokeFetchKibanaLogs
    \/ InvokeGenerateKibanaDiscoverUrl
    \/ Respond
    \/ RespondStatus
    \/ Complete

Spec == Init /\ [][Next]_vars

\* the state encoder alone, on every string of RisonStrings
InitRison ==
    /\ env = Env("kibana", "https://localhost/kibana", "VnVhQ2ZHY0JDZGJrU", "", "", "", "")
    /\ up = Backends
    /\ IdleServer
    /\ risonIn \in RisonStrings
    /\ risonOut = NotEncoded

NextRison == EncodeRison

SpecRison == InitRison /\ [][NextRison]_vars

\* the state encoder alone, on every value of RisonValues
InitRisonValue ==
    /\ env = Env("kibana", "https://localhost/kibana", "VnVhQ2ZHY0JDZGJrU", "", "", "", "")
    /\ up = Backends
    /\ IdleServer
    /\ risonIn \in RisonValues
    /\ risonOut = NotEncoded

NextRisonValue == EncodeRisonValue

SpecRisonValue == InitRisonValue /\ [][NextRisonValue]_vars

\* two or more invocations of the search coroutine of a server, configured
\* or not, running on one event loop
InitConcurrent ==
    /\ env \in
        {Env("kibana", "https://localhost/kibana", "VnVhQ2ZHY0JDZGJrU", "", "", "", ""),
         Env("kibana", "https://localhost/kibana", "", "", "", "", ""),
         Env("elastic", "https://localhost/kibana", "", "", "VnVhQ2ZHY0JDZGJrU", "", "")}
    /\ up = Backends
    /\ IdleServer
    /\ risonIn = <<>>
    /\ risonOut = NotEncoded

NextConcurrent ==
    \/ StartTask
    \/ PostTask
    \/ RespondTask

SpecConcurrent == InitConcurrent /\ [][NextConcurrent]_vars

\* the Redmine server; it reads none of the variables of the log-search
\* servers
InitRedmine ==
    /\ env = Env("redmine", "", "", "", "", "", "")
    /\ up = {}
    /\ IdleServer
    /\ risonIn = <<>>
    /\ risonOut = NotEncoded

NextRedmine ==
    \/ InvokeGetIssues
    \/ RespondIssues
    \/ InvokeGetProjects
    \/ FetchProjectsPage
    \/ InvokeDownloadIssueAttachments
    \/ RespondIssue
    \/ DownloadAttachment
    \/ CompleteRedmine

SpecRedmine == InitRedmine /\ [][NextRedmine]_vars

\* every request of make_redmine_request ends, with an answer or with the
\* timeout of 30 seconds, and the event loop resumes get_projects
SpecRedmineFair == SpecRedmine /\ WF_vars(FetchProjectsPage)

----------------------------------------------------------------------------
(* Claims *)

\* the functions of the Elastic server that take a sort order
SortingFunctions == {"search_elasticsearch_logs", "elastic.search_kibana_logs"}
\* the tools, which answer with JSON text
Tools == {"fetch_elasticsearch_logs", "kibana.search_kibana_logs"}

\* C1: a search whose sort order is neither 'asc' nor 'desc' fails with a
\* validation error (the ValueError "Invalid sort_order"), and the invocation
\* creates no client and issues no request: it is over without ever waiting
\* for a backend.
C1_InvalidSortOrderFailsBeforeAnyRequest ==
    (/\ pc # "idle"
     /\ call.entry \in SortingFunctions
     /\ call.args.sort_order \notin {"asc", "desc"})
    => /\ pc = "done"
       /\ result.kind = "raise"
       /\ result.exc.type = "ValueError"
       /\ result.exc.text[1] = "Invalid sort_order: "
       /\ clients = 0
       /\ requests = <<>>
       /\ response = NoResponse

\* an invalid sort order was refused although the Kibana URL is configured
C1_Witness ==
    /\ pc = "done"
    /\ call.entry = "elastic.search_kibana_logs"
    /\ call.args.sort_order = "descending"
    /\ env.KIBANA_URL # ""
    /\ result.kind = "raise"

\* C2: in every query document sent, by every variant, the 'must' list holds
\* exactly one clause: the query_string clause of the caller's query when the
\* query is non-empty, the match_all clause when it is empty.
C2_ExactlyOneMustClause ==
    call.entry \in SearchEntries =>
        \A i \in 1..Len(requests) :
            LET must == requests[i].body.must
            IN  /\ Len(must) = 1
                /\ call.args.query # "" =>
                       must[1].clause = "query_string" /\ must[1].query = call.args.query
                /\ call.args.query = "" => must[1].clause = "match_all"

\* the Kibana server sent a document for an empty query, with match_all alone
C2_Witness ==
    /\ pc = "waiting"
    /\ call.entry = "kibana.search_kibana_logs"
    /\ call.args.query = ""
    /\ requests[1].body.must = <<MatchAll>>

\* C3: the 'size' of a query document sent to a backend never exceeds the
\* configured maximum.
C3_SizeNeverExceedsMaximum ==
    call.entry \in SearchEntries =>
        \A i \in 1..Len(requests) : requests[i].body.size <= ConfiguredMaximum

\* the candidate endpoints of the invocation, in the order of preference:
\* the backends it has a URL for
C4_Candidates ==
    IF call.entry = "fetch_elasticsearch_logs"
    THEN (IF env.KIBANA_URL # "" THEN <<"kibana">> ELSE <<>>)
         \o (IF env.ELASTIC_URL # "" THEN <<"elasticsearch">> ELSE <<>>)
    ELSE IF call.entry = "kibana.search_kibana_logs" /\ env.KIBANA_URL # ""
    THEN <<"kibana">>
    ELSE <<>>

\* C4: when the candidates attempted so far failed with a transport error or
\* an HTTP error status and a later candidate answers with a valid payload,
\* the invocation returns a normalized result, not an error.
C4_FallbackReturnsFirstSuccess ==
    (/\ pc = "done"
     /\ call.entry \in Tools
     /\ response.kind \in {"transport", "http_error"}
     /\ \E i \in 1..Len(C4_Candidates) :
            /\ i > Len(requests)
            /\ C4_Candidates[i] \in up)
    => result.kind = "json"

\* a transport failure, as a backend that cannot be reached answers
C5_Unreachable == Response("transport", "", "All connection attempts failed", NoPayload)

\* C5: the message of a failed search tells a backend that was reached and
\* rejected the request from a backend that could not be reached.
C5_MessageTellsReachability ==
    (/\ pc = "done"
     /\ call.entry \in Tools
     /\ result.kind = "envelope"
     /\ response.kind = "http_error")
    => result.envelope.message # Finish(call.entry, C5_Unreachable).envelope.message

\* C6: an invocation issues at most one backend request, and once a backend
\* has answered it issues none: its requests stay as they are until the
\* caller has the result.
C6_AtMostOneRequest ==
    /\ [](Len(requests) <= 1)
    /\ [][response # NoResponse => requests' = requests \/ pc' = "idle"]_vars

\* the facade got data from the Kibana proxy while direct Elasticsearch was
\* configured too, and asked Kibana only
C6_Witness ==
    /\ pc = "done"
    /\ call.entry = "fetch_elasticsearch_logs"
    /\ env.ELASTIC_URL # ""
    /\ result.kind = "json"
    /\ Len(requests) = 1
    /\ requests[1].backend = "kibana"

\* the total-match count a payload reports
C7_Reported(total) == IF total.tag = "int" THEN total.n ELSE total.value

\* C7: for a total-match count given as a bare integer n or as an object
\* whose 'value' is n, every search variant returns a result whose total is n.
C7_TotalIsBareInteger ==
    (/\ pc = "done"
     /\ call.entry \in SearchEntries
     /\ response.kind = "ok"
     /\ ValidPayload(response.data))
    => /\ result.kind \in {"return", "json"}
       /\ result.value.total = C7_Reported(response.data.total)

\* the kind a failure is reported under: the exception's type for a
\* function, the envelope's 'error' for a tool
C8_ErrorKind(res) ==
    IF res.kind = "raise" THEN <<res.exc.type>>
    ELSE IF res.kind = "envelope" THEN res.envelope.error
    ELSE <<>>

\* the kind under which the entry reports a response without 'hits'
C8_MalformedKind(entry) ==
    C8_ErrorKind(Finish(entry, Response("ok", "200", "", NoPayload)))

\* C8: a fetched response without the hit-list structure is reported as a
\* failure of one kind of its own, under which no transport failure, HTTP
\* rejection or validation error is reported.
C8_MalformedResponseIsItsOwnKind ==
    (pc = "done" /\ call.entry \in SearchEntries) =>
        /\ (response.kind = "ok" /\ ~HasHitList(response.data))
           => /\ result.kind \in {"raise", "envelope"}
              /\ C8_ErrorKind(result) = C8_MalformedKind(call.entry)
        /\ (result.kind \in {"raise", "envelope"} /\ response.kind # "ok")
           => C8_ErrorKind(result) # C8_MalformedKind(call.entry)

\* C9: a returned result has at most `size` records, and its total is at
\* least the number of its records.
C9_RecordsWithinLimitAndTotal ==
    (pc = "done" /\ call.entry \in SearchEntries /\ result.kind \in {"return", "json"})
    => /\ Len(result.value.hits) <= call.args.size
       /\ result.value.total >= Len(result.value.hits)

\* the characters the claim lists as reserved
C10_Reserved == {"'", ":", "!", ",", "(", ")", "@", "-", " "}
C10_Bare(s) == s # <<>> /\ \A i \in 1..Len(s) : s[i] \notin C10_Reserved
\* the number of single quotes among the first k characters of s
C10_Quotes(s, k) == Cardinality({j \in 1..k : s[j] = "'"})
\* e is s in single quotes, each single quote of s preceded by "!"
C10_IsQuoted(s, e) ==
    /\ Len(e) = Len(s) + C10_Quotes(s, Len(s)) + 2
    /\ e[1] = "'"
    /\ e[Len(e)] = "'"
    /\ \A i \in 1..Len(s) :
        LET at == 1 + i + C10_Quotes(s, i - 1)
        IN  IF s[i] = "'" THEN e[at] = "!" /\ e[at + 1] = "'" ELSE e[at] = s[i]

\* C10: _encode_rison(s) is s itself exactly when s is non-empty and has no
\* reserved character; otherwise it is s in single quotes with each single
\* quote replaced by !'.  "" gives '', "log.level" stays bare and
\* "k8s-deployment" is quoted.
C10_StringEncoding ==
    risonOut.done =>
        /\ C10_Bare(risonIn) <=> risonOut.s = risonIn
        /\ ~C10_Bare(risonIn) => C10_IsQuoted(risonIn, risonOut.s)
        /\ risonIn = <<>> => risonOut.s = <<"'", "'">>
        /\ risonIn = LogLevel => risonOut.s = LogLevel
        /\ risonIn = K8sDeployment => risonOut.s = <<"'">> \o K8sDeployment \o <<"'">>

\* a string with a single quote was encoded
C10_Witness ==
    /\ risonOut.done
    /\ risonIn = <<"'", "a">>
    /\ risonOut.s = <<"'", "!", "'", "a", "'">>

RECURSIVE C11_Commas(_)
\* the texts of l in their order, with a comma between neighbours
C11_Commas(l) ==
    IF l = <<>> THEN <<>>
    ELSE IF Len(l) = 1 THEN l[1]
    ELSE C11_Commas(SubSeq(l, 1, Len(l) - 1)) \o <<",">> \o l[Len(l)]

RECURSIVE C11_Encoding(_)
\* the encoding the claim gives a value; a number or a string inside it is
\* encoded as the encoder encodes it alone
C11_Encoding(v) ==
    CASE v.tag = "null" -> <<"!", "n">>
      [] v.tag = "true" -> <<"!", "t">>
      [] v.tag = "false" -> <<"!", "f">>
      [] v.tag \in {"int", "str"} -> _encode_rison(v)
      [] v.tag = "list" ->
            <<"!", "(">>
            \o C11_Commas([i \in 1..Len(v.items) |-> C11_Encoding(v.items[i])])
            \o <<")">>
      [] v.tag = "dict" ->
            <<"(">>
            \o C11_Commas([i \in 1..Len(v.keys) |->
                              v.keys[i] \o <<":">> \o C11_Encoding(v.items[i])])
            \o <<")">>

\* C11: _encode_rison encodes a nested value recursively: None, True and False
\* as !n, !t and !f (a boolean never as a number, 0 and 1 never as a boolean),
\* a list as !(e1,...,en) in the order of its elements (!() when empty), a
\* dict as (k1:v1,...,kn:vn) with its keys bare and in insertion order (()
\* when empty); {"a": 1, "b": [True, None, "x"]} gives (a:1,b:!(!t,!n,x)).
C11_NestedEncoding ==
    risonOut.done =>
        /\ risonOut.s = C11_Encoding(risonIn)
        /\ risonIn.tag \in {"true", "false"} => risonOut.s \notin {<<"0">>, <<"1">>}
        /\ risonIn.tag = "int" => risonOut.s \notin {<<"!", "t">>, <<"!", "f">>}
        /\ risonIn = RisonExample =>
               risonOut.s = <<"(", "a", ":", "1", ",", "b", ":", "!", "(", "!", "t", ",",
                              "!", "n", ",", "x", ")", ")">>

\* a dict with two keys, the second with reserved characters, was encoded
C11_Witness ==
    /\ risonOut.done
    /\ risonIn = RisonDict(<<<<"b">>, <<"a", ":", "1", ",", "b">>>>,
                           <<RisonBool(TRUE), RisonInt(1)>>)
    /\ risonOut.s = <<"(", "b", ":", "!", "t", ",", "a", ":", "1", ",", "b", ":", "1", ")">>

\* C12: the encoder is injective: no value other than the one encoded has
\* the same encoding, be it a number and the string of its digits or a dict
\* whose key has reserved characters and a dict of several keys.
C12_EncodingIsInjective ==
    risonOut.done =>
        \A v \in RisonValues : v # risonIn => _encode_rison(v) # risonOut.s

\* the value a dict has for a key
C13_Get(dict, key) == dict.items[CHOOSE i \in 1..Len(dict.keys) : dict.keys[i] = <<key>>]

\* a text without its trailing slashes
C13_WithoutTrailingSlashes(base) ==
    LET k == CHOOSE j \in 0..Len(base) :
                 /\ j > 0 => base[j] # "/"
                 /\ \A i \in (j + 1)..Len(base) : base[i] = "/"
    IN  SubSeq(base, 1, k)

\* <base without trailing slashes>/app/discover#/view/<viewId>?_g=<G>&_a=<A>
C13_Link(base, view_id, G, A) ==
    C13_WithoutTrailingSlashes(base)
    \o <<"/", "app", "/", "discover", "#", "/", "view", "/">> \o view_id
    \o <<"?", "_g", "=">> \o G \o <<"&", "_a", "=">> \o A

\* the names a caller lists in a comma-separated argument
C13_Listed(columns) == strip_each_if_nonempty(str_split(columns))

\* the strings of a list of strings
C13_Strings(list) == [i \in 1..Len(list.items) |-> list.items[i].s]

\* the link is of the form of the claim, for the base URL given to
\* _build_discover_url and the two states as encoded and then percent-encoded;
\* the encoder's own output has no percent sign; time range and query are
\* the caller's
C13_LinkForm ==
    /\ discover.discover_url =
           C13_Link(discover.kibana_base_url, kibanaArgs.view_id,
                    quote(_encode_rison(discover.global_state)),
                    quote(_encode_rison(discover.app_state)))
    /\ \A state \in {discover.global_state, discover.app_state} :
           \A i \in 1..Len(_encode_rison(state)) : _encode_rison(state)[i] # "%"
    /\ C13_Get(C13_Get(discover.global_state, "time"), "from").s = kibanaArgs.time_from
    /\ C13_Get(C13_Get(discover.global_state, "time"), "to").s = kibanaArgs.time_to
    /\ C13_Get(C13_Get(discover.app_state, "query"), "query").s = kibanaArgs.query

\* C13 as stated: the link has the form <base without trailing
\* slashes>/app/discover#/view/<viewId>?_g=<G>&_a=<A> with G and A the
\* percent-encoded rison encodings of the two states, and for all inputs the
\* time range, the query, the data view id and the columns in the states are
\* the caller's values unchanged.
C13_DiscoverLinkAsStated ==
    discover.built =>
        /\ C13_LinkForm
        /\ C13_Get(C13_Get(discover.app_state, "dataSource"), "dataViewId").s
               = kibanaArgs.index_pattern
        /\ C13_Strings(C13_Get(discover.app_state, "columns")) = C13_Listed(kibanaArgs.columns)

\* C13, amended: the link has the form of the claim, time range and query
\* are the caller's values unchanged, the data view id is the caller's index
\* pattern when that is not empty and DATA_VIEW_ID when it is, and the columns
\* are the names the caller lists when a columns argument is given and the
\* five default columns when it is not.
C13_DiscoverLink ==
    discover.built =>
        /\ C13_LinkForm
        /\ C13_Get(C13_Get(discover.app_state, "dataSource"), "dataViewId").s
               = IF kibanaArgs.index_pattern # <<>> THEN kibanaArgs.index_pattern
                 ELSE DATA_VIEW_ID_text
        /\ C13_Strings(C13_Get(discover.app_state, "columns"))
               = IF kibanaArgs.columns # <<>> THEN C13_Listed(kibanaArgs.columns)
                 ELSE <<<<"logback.mdc.guid">>, <<"logback.mdc.txnCode">>, <<"message">>,
                        <<"log.level">>, <<"k8s.deployment.name">>>>

\* a link was generated for a base URL with trailing slashes, a query and two
\* columns, and its states are percent-encoded
C13_Witness ==
    /\ pc = "done"
    /\ call.entry = "generate_kibana_discover_url"
    /\ discover.built
    /\ kibanaArgs.kibana_url # <<>>
    /\ kibanaArgs.query # <<>>
    /\ kibanaArgs.index_pattern # <<>>
    /\ C13_Strings(C13_Get(discover.app_state, "columns")) = <<<<"message">>, <<"log.level">>>>
    /\ \E i \in 1..Len(discover.discover_url) : discover.discover_url[i] = "%"

\* the link-generation tools
LinkTools == {"fetch_kibana_logs", "generate_kibana_discover_url"}

\* C14: a link-generation tool performs no network I/O: whether it returns a
\* link or an error, it has returned without waiting for a backend, creating
\* no client and issuing no request.
C14_LinkToolsIssueNoRequest ==
    call.entry \in LinkTools =>
        /\ pc = "done"
        /\ clients = 0
        /\ requests = <<>>
        /\ response = NoResponse

\* fetch_kibana_logs returned a link while Kibana was down
C14_Witness ==
    /\ pc = "done"
    /\ call.entry = "fetch_kibana_logs"
    /\ "kibana" \notin up
    /\ result.kind = "json"
    /\ discover.built
    /\ requests = <<>>

\* C15: every search request carries exactly one authentication mechanism,
\* the API-key Authorization header or basic credentials, never both and
\* never none; with an API key and a username and password configured, it is
\* the API key.
C15_ExactlyOneAuthentication ==
    call.entry \in SearchEntries =>
        \A i \in 1..Len(requests) :
            /\ (requests[i].api_key # "") # (requests[i].auth # <<>>)
            /\ (/\ env.ELASTIC_API_KEY # ""
                /\ env.KIBANA_USERNAME # ""
                /\ env.KIBANA_PASSWORD # "")
               => requests[i].api_key = env.ELASTIC_API_KEY /\ requests[i].auth = <<>>

\* the tool operations of the two servers
ToolOperations ==
    {"fetch_elasticsearch_logs", "kibana.search_kibana_logs", "fetch_kibana_status"}
    \cup LinkTools

\* the invocation failed: it made no request, the backend did not answer
\* with HTTP 200 and JSON, or a search answer has no hit list or no total
C16_Failed ==
    \/ requests = <<>> /\ call.entry \notin LinkTools
    \/ call.entry \in LinkTools /\ ~discover.built
    \/ response.kind \in {"transport", "http_error", "not_json"}
    \/ call.entry \in SearchEntries /\ response.kind = "ok" /\ ~HasHitList(response.data)

\* C16: a tool operation never lets an exception out: what it returns is its
\* JSON result or a JSON error envelope, and on a failure (missing
\* configuration, transport failure, HTTP error status, malformed response)
\* it is an envelope with an 'error' and a 'message'.
C16_ToolsReturnStructuredPayload ==
    (pc = "done" /\ call.entry \in ToolOperations) =>
        /\ result.kind \in {"json", "envelope"}
        /\ result.exc = NoExc
        /\ C16_Failed =>
               /\ result.kind = "envelope"
               /\ result.envelope.error # <<>>
               /\ result.envelope.message # ""

\* fetch_elasticsearch_logs got a response without 'hits' and returned an
\* envelope
C16_Witness ==
    /\ pc = "done"
    /\ call.entry = "fetch_elasticsearch_logs"
    /\ response.kind = "ok"
    /\ ~response.data.has_hits
    /\ result.kind = "envelope"

\* a second transport failure and a second HTTP error status
C17_Timeout == Response("transport", "", "timed out", NoPayload)
C17_Unavailable == Response("http_error", "503", "Service Unavailable", NoPayload)

\* the 'error' of the envelope the tool of the invocation returns for a response
C17_Error(r) == Finish(call.entry, r).envelope.error

\* C17: the envelope of a failed search names the kind of the failure in
\* 'error', apart from the 'message': in every search tool all transport
\* failures have one 'error', all HTTP error statuses have one 'error', and
\* the two differ.
C17_EnvelopeNamesKind ==
    (/\ pc = "done"
     /\ call.entry \in Tools
     /\ result.kind = "envelope"
     /\ response.kind \in {"transport", "http_error"})
    => /\ result.envelope.message # ""
       /\ response.kind = "transport" => result.envelope.error = C17_Error(C17_Timeout)
       /\ response.kind = "http_error" => result.envelope.error = C17_Error(C17_Unavailable)
       /\ C17_Error(C17_Timeout) # C17_Error(C17_Unavailable)

\* C18: every query document sent for a search has exactly one filter
\* clause, the range on '@timestamp' from the caller's time_from to the
\* caller's time_to, both as the caller gave them, with or without a query
\* and a projection.
C18_OneTimeRangeFilter ==
    call.entry \in SearchEntries =>
        \A i \in 1..Len(requests) :
            LET filter == requests[i].body.filter
            IN  /\ Len(filter) = 1
                /\ filter[1].field = "@timestamp"
                /\ filter[1].gte = call.args.time_from
                /\ filter[1].lte = call.args.time_to

\* the Kibana server sent the range of ISO 8601 times, with no query and no
\* projection
C18_Witness ==
    /\ pc = "waiting"
    /\ call.entry = "kibana.search_kibana_logs"
    /\ call.args.query = ""
    /\ call.args.fields_str = <<>>
    /\ requests[1].body.filter[1].gte = "2026-02-06T00:00:00.000Z"
    /\ requests[1].body.filter[1].lte = "2026-02-16T23:59:59.000Z"

\* the caller's field projection: the list a function is given (none when
\* it is None), the names listed in the `fields` string of a tool
C19_Projection ==
    IF call.entry \in Tools
    THEN strip_each_if_nonempty(str_split(call.args.fields_str))
    ELSE IF call.args.fields.none THEN <<>> ELSE call.args.fields.list

\* C19: a query document sent for a search has a '_source' clause exactly
\* when the caller's projection is not empty, and then it lists the caller's
\* fields in order; a `fields` of commas and blanks only is an empty projection.
C19_ProjectionClause ==
    call.entry \in SearchEntries =>
        \A i \in 1..Len(requests) :
            /\ requests[i].body.has_source <=> C19_Projection # <<>>
            /\ requests[i].body.has_source => requests[i].body._source = C19_Projection

\* C20: every query document sent for a search has exactly one sort clause,
\* on the caller's sort field and in the caller's sort direction, in every
\* search variant, the Kibana server's search_kibana_logs among them.
C20_OneSortClause ==
    call.entry \in SearchEntries =>
        \A i \in 1..Len(requests) :
            LET sort == requests[i].body.sort
            IN  /\ Len(sort) = 1
                /\ sort[1].field = call.args.sort_field
                /\ sort[1].order = call.args.sort_order

\* C21: a returned result has one record for each hit of the response, in
\* the order of the hits, with the hit's index, id and source; the record of
\* a hit without a score has no score (null, not 0), the record of a hit with
\* score 0 has score 0.
C21_RecordsMirrorHits ==
    (/\ pc = "done"
     /\ call.entry \in SearchEntries
     /\ result.kind \in {"return", "json"})
    => LET hits == response.data.hits
           records == result.value.hits
       IN  /\ Len(records) = Len(hits)
           /\ \A i \in 1..Len(hits) :
                  /\ records[i]._index = hits[i]._index
                  /\ records[i]._id = hits[i]._id
                  /\ records[i]._source = hits[i]._source
                  /\ records[i]._score.null <=> ~hits[i].has_score
                  /\ hits[i].has_score => records[i]._score.v = hits[i]._score

\* the Kibana server returned two records, the first of a hit with score 0,
\* the second of a hit without a score
C21_Witness ==
    /\ pc = "done"
    /\ call.entry = "kibana.search_kibana_logs"
    /\ result.kind = "json"
    /\ Len(response.data.hits) = 2
    /\ response.data.hits[1].has_score
    /\ ~response.data.hits[2].has_score
    /\ result.value.hits[1]._score = [null |-> FALSE, v |-> 0]
    /\ result.value.hits[2]._score.null
    /\ result.value.hits[2]._id = response.data.hits[2]._id

\* C22: search invocations running at the same time do not interfere: in
\* every interleaving each invocation posts the query document it would post
\* when run alone with its arguments, and returns what it would return alone
\* for the answer it got; no step of an invocation writes the configuration
C22_InvocationsDoNotInterfere ==
    /\ [](\A t \in Tasks :
            LET alone == TaskStarted(tasks[t].args)
            IN  /\ tasks[t].pc \in {"waiting", "done"} =>
                    tasks[t].requests = alone.requests
                /\ tasks[t].pc = "done" =>
                    tasks[t].result =
                        IF alone.result # NoResult THEN alone.result
                        ELSE Finish(TaskEntry, tasks[t].response))
    /\ [][env' = env]_vars

\* one invocation has returned its records while another, begun with other
\* arguments before the first returned, still awaits its answer
C22_Witness ==
    /\ tasks[1].pc = "done"
    /\ tasks[1].result.kind = "json"
    /\ Len(tasks[1].result.value.hits) = 1
    /\ tasks[2].pc = "waiting"
    /\ tasks[2].args # tasks[1].args
    /\ tasks[2].requests # tasks[1].requests

\* C23: within one call of download_issue_attachments no two attachments
\* are downloaded to the same destination path, two attachments with the
\* same filename or with no filename among them.
C23_DistinctDestinations ==
    \A i, j \in 1..Len(downloads) :
        i # j => downloads[i].output_path # downloads[j].output_path

\* C24: the 'limit' get_issues sends is the requested limit when that is at
\* most 100 and 100 otherwise, so it is never above 100.
C24_LimitAtMost100 ==
    redmineCall.tool = "get_issues" =>
        /\ Len(endpoints) = 1
        /\ LET sent == endpoints[1].params[2]
           IN  /\ sent[1] = "limit"
               /\ sent[2] <= 100
               /\ sent[2] = IF redmineCall.limit <= 100 THEN redmineCall.limit ELSE 100

\* get_issues was called with a limit of 1000 and has asked for 100 issues
C24_Witness ==
    /\ redmineCall.tool = "get_issues"
    /\ redmineCall.limit = 1000
    /\ redminePc = "done"
    /\ endpoints[1].params[2] = <<"limit", 100>>

\* the tools of the Kibana server that need the Kibana URL, and those that
\* need the API key as well
C25_UrlTools ==
    {"kibana.search_kibana_logs", "fetch_kibana_status", "fetch_kibana_logs",
     "generate_kibana_discover_url"}
C25_KeyTools == {"kibana.search_kibana_logs", "fetch_kibana_status"}
\* neither the environment nor a parameter of the call gives the value
C25_UrlMissing == env.KIBANA_URL = "" /\ kibanaArgs.kibana_url = <<>>
C25_KeyMissing == env.KIBANA_API_KEY = "" /\ kibanaArgs.api_key = ""

\* C25: a tool of the Kibana server called without the Kibana URL it needs,
\* or (search_kibana_logs, fetch_kibana_status) without the API key, answers
\* at once with a ConfigurationError envelope and issues no network request.
C25_ConfigurationFirst ==
    (/\ env.server = "kibana"
     /\ pc # "idle"
     /\ \/ call.entry \in C25_UrlTools /\ C25_UrlMissing
        \/ call.entry \in C25_KeyTools /\ C25_KeyMissing)
    => /\ pc = "done"
       /\ result.kind = "envelope"
       /\ result.envelope.error = <<"ConfigurationError">>
       /\ clients = 0
       /\ requests = <<>>
       /\ response = NoResponse
       /\ ~discover.built

\* fetch_kibana_status was called with a URL and without an API key, and
\* refused
C25_Witness ==
    /\ call.entry = "fetch_kibana_status"
    /\ kibanaArgs.kibana_url # <<>>
    /\ C25_KeyMissing
    /\ pc = "done"
    /\ result.envelope.error = <<"ConfigurationError">>
    /\ requests = <<>>

\* the columns _build_discover_url shows when it is given none
C26_DefaultColumns ==
    <<<<"logback.mdc.guid">>, <<"logback.mdc.txnCode">>, <<"message">>, <<"log.level">>,
      <<"k8s.deployment.name">>>>

\* C26: the parameters a link tool reports agree with its link: 'columns' is
\* reported as "default" exactly when the app state of the link carries the
\* five default columns, a `fields` of commas and spaces only included, and
\* the reported index pattern is the dataViewId of the link.
C26_ReportedParametersAgree ==
    discover.built =>
        LET A == discover.app_state
        IN  /\ discover.parameters.columns.none <=>
                   C13_Strings(C13_Get(A, "columns")) = C26_DefaultColumns
            /\ discover.parameters.index_pattern =
                   C13_Get(C13_Get(A, "dataSource"), "dataViewId").s

\* C28: the projection of a query document sent by search_kibana_logs of
\* the Kibana server or by fetch_elasticsearch_logs has no empty field name,
\* whatever the `fields` argument: every name is not empty and is trimmed.
C28_NoEmptyFieldName ==
    call.entry \in Tools =>
        \A i \in 1..Len(requests) :
            requests[i].body.has_source =>
                \A k \in 1..Len(requests[i].body._source) :
                    LET name == requests[i].body._source[k]
                    IN  /\ name # <<>>
                        /\ name[1] # " "
                        /\ name[Len(name)] # " "

RECURSIVE C27_Concat(_)
\* the projects of the answers that carried a page, in the order of the answers
C27_Concat(answers) ==
    IF answers = <<>> THEN <<>>
    ELSE (IF Head(answers).kind = "ok" THEN Head(answers).items ELSE <<>>)
         \o C27_Concat(Tail(answers))
\* the request failed or gave no page, or the page is empty
C27_Broken(data) == data.kind # "ok" \/ data.items = <<>>
\* the total the loop compares with: 0 when the server reports none
C27_Total == IF total_count.present THEN total_count.n ELSE 0

\* what C27 says of the requests, of where the loop stops and of the listing
C27_Paging ==
    redmineCall.tool = "get_projects" =>
        /\ Len(endpoints) = Len(pages)
        /\ \A k \in 1..Len(endpoints) :
                endpoints[k] = Endpoint(<<"projects.json">>,
                                        <<<<"limit", 100>>, <<"offset", 100 * (k - 1)>>>>)
        /\ all_projects = C27_Concat(pages)
        /\ \A k \in 1..(Len(pages) - 1) : ~C27_Broken(pages[k])
        /\ redminePc = "paging" =>
                /\ offset = 100 * Len(pages)
                /\ pages # <<>> =>
                        /\ ~C27_Broken(pages[Len(pages)])
                        /\ Len(all_projects) < C27_Total
        /\ redminePc = "done" =>
                /\ pages # <<>>
                /\ LET last == pages[Len(pages)]
                   IN  /\ C27_Broken(last) \/ Len(all_projects) >= C27_Total
                       /\ Len(pages) > 1 =>
                            Len(all_projects) - Len(last.items) < C27_Total
                /\ redmineResult =
                        IF all_projects = <<>>
                        THEN RedmineResult("No projects found.", 0, 0, <<>>)
                        ELSE RedmineResult("Found projects", Len(all_projects), 0,
                                 [i \in 1..Len(all_projects) |-> <<"[", all_projects[i], "]">>])

\* C27: with a total_count that stays the same, get_projects always ends: it
\* requests the offsets 0, 100, 200, ... in order, stops at the first failed
\* request, at the first empty page, or as soon as it has collected
\* total_count projects (after the first page when there is no total_count),
\* and lists exactly the projects of the pages it fetched, in that order.
C27_GetProjectsTerminates ==
    /\ []C27_Paging
    /\ (redminePc = "paging") ~> (redminePc = "done")

\* get_projects ended on the page that completed the largest total, after
\* three pages or more, one of them short
C27_Witness ==
    /\ redmineCall.tool = "get_projects"
    /\ redminePc = "done"
    /\ Len(pages) >= 3
    /\ total_count = TotalCount(TRUE, MaxTotalCount)
    /\ Len(all_projects) = MaxTotalCount
    /\ Len(pages[Len(pages)].items) = 1
    /\ offset = 100 * (Len(pages) - 1)
    /\ redmineResult.count = MaxTotalCount

====
